---- MODULE Spec2Model ----
(***************************************************************************)
(* Conversation State Coordinator of the rag-frontend client.              *)
(*                                                                         *)
(* The model follows src/App.tsx (the coordinator built on                 *)
(* workflowService) and the stream half of                                 *)
(* src/services/workflowService.ts (connectToWorkflowStream).              *)
(*                                                                         *)
(* React state is modelled as committed at the end of each handler: the    *)
(* setters of one handler are applied in call order, which is the order    *)
(* React applies its update queue.  The one thing React does later is the  *)
(* passive effect of App.tsx:35-37 that copies currentConversationId into  *)
(* currentConversationIdRef.  After a click (a discrete event) React runs  *)
(* it before the handler's event ends; after an update made from a promise *)
(* continuation it runs in a later task, and a stream frame can be         *)
(* delivered in between.  SyncRefEffect is that later task.                *)
(***************************************************************************)
EXTENDS Integers, Sequences, FiniteSets, TLC

\* ---------------------------------------------------------------- bounds
MaxLen == 2           \* longest rendered list a send may build (user message and answer included)
MaxStreams == 2       \* EventSource objects that are open or held in the table at once
MaxHistoryCalls == 1  \* getHistory calls in flight per conversation id
MaxStartCalls == 1    \* startWorkflow / sendMessage calls in flight
MaxRefreshCalls == 1  \* getConversations calls in flight
MaxDeleteCalls == 1   \* deleteConversation calls in flight
MaxList == 2          \* longest conversation list a send may build
MaxTime == 2          \* the clock values (ms) a timestamp can hold
MaxStoredMsgs == 2    \* messages of a conversation in the persistent store
MaxStoredConvs == 1   \* conversations in the persistent store

\* ------------------------------------------------------------- value sets
ConvIds == {"c1", "c2"}
NoConv == "null"
Undef == "undefined"
NoProgress == 0 - 1   \* progress is absent (types.ts: progress?: number)

Terminal == {"COMPLETED", "FAILED"}

ConnectionLost == "Connection lost. Please check backend logs or refresh."
Initializing == "Initializing..."
StartError == "Error: start failed"

\* the frames a backend can push on a stream (WorkflowStatusResponse)
Frames ==
  { [status |-> "RUNNING",   message |-> "a", agent |-> "Coder",  progress |-> 1],
    [status |-> "RUNNING",   message |-> "",  agent |-> "Coder",  progress |-> 1],
    [status |-> "COMPLETED", message |-> "b", agent |-> "Coder",  progress |-> 2],
    [status |-> "COMPLETED", message |-> "",  agent |-> "Coder",  progress |-> 2] }

\* the answers of POST /workflows/start (status, message, agent, progress may be absent)
StartResponses ==
  { [conversationId |-> c, status |-> r[1], message |-> r[2], agent |-> Undef, progress |-> NoProgress] :
      c \in ConvIds, r \in { <<Undef, "">> } }

UserMsg(text) ==
  [sender |-> "user", content |-> text, status |-> Undef, agent |-> Undef, progress |-> NoProgress]

AgentMsg(text, st, ag, pr) ==
  [sender |-> "agent", content |-> text, status |-> st, agent |-> ag, progress |-> pr]

\* the message lists GET /workflows/{id}/history can return 
Histories ==
  { << >>,
    << UserMsg("q") >>,
    << UserMsg("q"), AgentMsg("a", "RUNNING", "Coder", 1) >>,
    << UserMsg("q"), AgentMsg("b", "COMPLETED", "Coder", 2) >> }

HistoryStatuses == {"RUNNING", "COMPLETED"}

NoFrame == [status |-> Undef, message |-> "", agent |-> Undef, progress |-> NoProgress]

VARIABLES
  conversations,              \* App.tsx:19   Seq of [id, messages]
  currentConversationId,      \* App.tsx:20
  messages,                   \* App.tsx:21   the rendered list
  isLoading,                  \* App.tsx:26
  activeStreamsRef,           \* App.tsx:31   conversation id -> EventSource (0: no entry)
  currentConversationIdRef,   \* App.tsx:32
  eventSources,               \* the EventSource objects made by connectToWorkflowStream
  pendingHistory,             \* loadConversation calls suspended at App.tsx:255
  pendingStarts,              \* handleSendMessage calls suspended at App.tsx:320, with their closures
                              \* (superseded: the user has chosen another view since the send)
  lastOp,                     \* the handler that ran last, and what it was given
  conversationList,           \* part_005:20  Seq of [conversationId]  (chat coordinator only)
  pendingRefresh,             \* refreshConversationList calls suspended at part_005:87
  pendingDeletes,             \* handleDeleteConversation calls suspended at part_005:245
  localStorage,               \* App.tsx:55  the value stored under the key 'conversations'
  isAppReady,                 \* App.tsx:13
  composer,                   \* ChatInput (HistorySidebar.tsx:297-399): its state, the isRepoLocked
                              \* prop, and what its last handleSend gave to onSend
  identity,                   \* part_005:14, 44-58: the theme and the user id, in state and in the browser store
  messageList,                \* MessageList.tsx:14-15: its two flags, and how far the viewport is from the bottom
  chatStream,                 \* chatService.connectToStream (workflowService.ts:110-215): the EventSource,
                              \* the accumulator of its closure, the frames pushed, the last onUpdate
  svc                         \* a call of the service layer (workflowService.ts): its arguments,
                              \* what it gave to fetch, what fetch answered, how it settled

vars == << conversations, currentConversationId, messages, isLoading, activeStreamsRef,
           currentConversationIdRef, eventSources, pendingHistory, pendingStarts, lastOp,
           conversationList, pendingRefresh, pendingDeletes, localStorage, isAppReady, composer, identity,
           messageList, chatStream, svc >>

\* the state of the components around the coordinator, which the coordinator's
\* handlers leave alone
auxVars == << localStorage, isAppReady, composer, identity, messageList, chatStream, svc >>

\* the state only the chat coordinator has
chatVars == << conversationList, pendingRefresh, pendingDeletes >>

\* ---------------------------------------------------------------- helpers
Last(s) == s[Len(s)]

Truthy(str) == str # "" /\ str # Undef

Or(a, dflt) == IF Truthy(a) THEN a ELSE dflt

HasConv(convs, id) == \E i \in 1..Len(convs) : convs[i].id = id

\* Array.prototype.find: the first match
FindConv(convs, id) == convs[CHOOSE i \in 1..Len(convs) : convs[i].id = id /\ \A j \in 1..(i-1) : convs[j].id # id]

\* mutant: the stored record keeps its messages
MapConv_KeepsMessages(convs, id, msgs) == convs

MapConv(convs, id, msgs) ==
  [i \in 1..Len(convs) |-> IF convs[i].id = id THEN [convs[i] EXCEPT !.messages = msgs] ELSE convs[i]]

\* mutant: the merge of src/unnamed/part_005:124, which keeps the old content when
\* the new one is empty
Merge_KeepsOldContent(lastMsg, u) ==
  [lastMsg EXCEPT !.content = IF u.message # "" THEN u.message ELSE @,
                  !.status = u.status, !.progress = u.progress, !.agent = u.agent]

\* App.tsx:138-144 and 170-176, the frame written over the tail agent message
Merge(lastMsg, u) ==
  [lastMsg EXCEPT !.content = u.message, !.status = u.status, !.progress = u.progress, !.agent = u.agent]

\* App.tsx:132-159, the body of the map over the conversation list
FoldRecord(msgs, u) ==
  IF Len(msgs) > 0 /\ Last(msgs).sender = "agent"
    THEN [msgs EXCEPT ![Len(msgs)] = Merge(Last(msgs), u)]
    ELSE IF u.message # "" /\ (Len(msgs) = 0 \/ Last(msgs).sender = "user")
      THEN Append(msgs, AgentMsg(u.message, u.status, u.agent, u.progress))
      ELSE msgs

\* App.tsx:165-191, the updater of the rendered list
FoldView(msgs, u) ==
  IF Len(msgs) > 0 /\ Last(msgs).sender = "agent"
    THEN [msgs EXCEPT ![Len(msgs)] = Merge(Last(msgs), u)]
    ELSE IF u.message # ""
      THEN Append(msgs, AgentMsg(u.message, u.status, u.agent, u.progress))
      ELSE msgs

\* App.tsx:128-161
FoldConversations(convs, id, u) ==
  [i \in 1..Len(convs) |->
     IF convs[i].id # id THEN convs[i]
     ELSE [convs[i] EXCEPT !.messages = FoldRecord(convs[i].messages, u)]]

\* EventSource.close()
CloseEs(ess, h) == IF h = 0 THEN ess ELSE [ess EXCEPT ![h].readyState = "CLOSED"]

\* mutant: closeStream forgets the entry without closing the EventSource
CloseStreamEs_Leaks(tbl, ess, id) == ess

\* App.tsx:114-121 closeStream, on the pair (table, EventSource objects)
CloseStreamTable(tbl, id) == [tbl EXCEPT ![id] = 0]

CloseStreamEs(tbl, ess, id) == CloseEs(ess, tbl[id])

\* an EventSource object is garbage once it is closed and the table does not hold it
InUse(h) == eventSources[h].readyState = "OPEN" \/ \E c \in ConvIds : activeStreamsRef[c] = h
FreeEs == {h \in 1..MaxStreams : ~InUse(h)}
NextEs == IF FreeEs = {} THEN MaxStreams + 1 ELSE CHOOSE h \in FreeEs : \A g \in FreeEs : h <= g

\* forget the EventSource objects that are closed and that the table does not hold
Gc(ess, tbl) ==
  [h \in DOMAIN ess |->
     IF ess[h].readyState = "CLOSED" /\ \A c \in ConvIds : tbl[c] # h
       THEN [readyState |-> "NONE", conv |-> NoConv] ELSE ess[h]]

\* new EventSource(streamUrl) in connectToWorkflowStream
OpenEs(ess, h, id) == [ess EXCEPT ![h] = [readyState |-> "OPEN", conv |-> id]]

\* mutant: the service leaves the channel open after the last frame
ServiceClose_LeavesOpen(ess, u, h) == ess

\* workflowService.ts:463-466, 478-481 (and 182, 193 of connectToStream): after it has
\* passed a COMPLETED or FAILED frame to onUpdate the service closes its EventSource
ServiceClose(ess, u, h) == IF u.status \in Terminal THEN CloseEs(ess, h) ELSE ess

\* mutant: the service reports the error and leaves the EventSource to reconnect
ErrorClose_Reconnects(ess, h) == ess

\* workflowService.ts:494-495 (and 209-210): after onError the service closes its EventSource
ErrorClose(ess, h) == CloseEs(ess, h)

\* ------------------------------------------------------- persistent store
\* A Date is its time value; NaN is the time value of an Invalid Date.
NaN == 0 - 2
Times == 1..MaxTime
Dates == Times \cup {NaN}

\* JSON values of a timestamp key: an ISO string (of time v), null, or no key at all
JIso(d) == [t |-> "string", v |-> d]
JNull == [t |-> "null", v |-> 0]
JAbsent == [t |-> "undefined", v |-> 0]

\* Date.prototype.toJSON, called by JSON.stringify (App.tsx:95): the ISO string, and
\* null for an Invalid Date
ToJSON(d) == IF d = NaN THEN JNull ELSE JIso(d)

\* new Date(x) (App.tsx:60-61) for x a parsed JSON value: the time of an ISO string,
\* the epoch for null, an Invalid Date for undefined
NewDate(j) == IF j.t = "string" THEN j.v ELSE IF j.t = "null" THEN 0 ELSE NaN

\* a message and a conversation record with their timestamps (types.ts:7-15, 33-38)
StoreMsg(sender, st, d) == [sender |-> sender, content |-> "q", status |-> st, timestamp |-> d]
StoreConv(id, d, msgs) == [id |-> id, timestamp |-> d, messages |-> msgs]

\* JSON.stringify of the conversation list (App.tsx:95).  A key whose value is
\* undefined is left out, and read back as undefined: Undef stands for both.
StringifyMsg(m) ==
  [sender |-> m.sender, content |-> m.content, status |-> m.status, timestamp |-> ToJSON(m.timestamp)]
StringifyConv(c) ==
  [t |-> "object", id |-> c.id, timestamp |-> ToJSON(c.timestamp),
   messages |-> [isArray |-> TRUE, items |-> [i \in 1..Len(c.messages) |-> StringifyMsg(c.messages[i])]]]
Stringify(convs) ==
  [kind |-> "array", items |-> [i \in 1..Len(convs) |-> StringifyConv(convs[i])]]

\* what getItem('conversations') can give: nothing (null or the empty string), text
\* that is not JSON, JSON that is not an array, and arrays
NoItem == [kind |-> "none", items |-> << >>]
NotJson == [kind |-> "garbage", items |-> << >>]
JsonObject == [kind |-> "object", items |-> << >>]

\* elements of a stored array that are not conversation records: null, a number,
\* and an object whose messages key is not an array
NullElement == [t |-> "null", id |-> Undef, timestamp |-> JAbsent, messages |-> [isArray |-> FALSE, items |-> << >>]]
NumberElement == [t |-> "number", id |-> Undef, timestamp |-> JAbsent, messages |-> [isArray |-> FALSE, items |-> << >>]]
NoMessagesElement == [t |-> "object", id |-> "c1", timestamp |-> JIso(1), messages |-> [isArray |-> FALSE, items |-> << >>]]

\* App.tsx:58-62, the map of hydrate over the parsed array
HydrateMsg(m) ==
  [sender |-> m.sender, content |-> m.content, status |-> m.status, timestamp |-> NewDate(m.timestamp)]
HydrateConv(e) ==
  [id |-> e.id, timestamp |-> NewDate(e.timestamp),
   messages |-> IF e.messages.isArray
                  THEN [i \in 1..Len(e.messages.items) |-> HydrateMsg(e.messages.items[i])]
                  ELSE << >>]
HydrateList(content) == [i \in 1..Len(content.items) |-> HydrateConv(content.items[i])]

\* JSON.parse(savedConvs).map(...) throws (App.tsx:58): the text is not JSON, the
\* value has no map, or an element is null
ParseThrows(content) ==
  \/ content.kind \in {"garbage", "object"}
  \/ content.kind = "array" /\ \E i \in 1..Len(content.items) : content.items[i].t = "null"

\* --------------------------------------------------------- service layer
\* Text that the code trims or lower-cases is a sequence of characters.
IsSpace(ch) == ch \in {" ", "\n"}

RECURSIVE TrimStart(_)
TrimStart(t) == IF t = << >> \/ ~IsSpace(Head(t)) THEN t ELSE TrimStart(Tail(t))

RECURSIVE TrimEnd(_)
TrimEnd(t) == IF t = << >> \/ ~IsSpace(t[Len(t)]) THEN t ELSE TrimEnd(SubSeq(t, 1, Len(t) - 1))

\* String.prototype.trim
Trim(t) == TrimEnd(TrimStart(t))

\* String.prototype.toLowerCase, on the letters the texts below use
LowerOf == [ch \in {"T", "E", "S"} |-> IF ch = "T" THEN "t" ELSE IF ch = "E" THEN "e" ELSE "s"]
ToLowerCase(t) == [i \in 1..Len(t) |-> IF t[i] \in DOMAIN LowerOf THEN LowerOf[t[i]] ELSE t[i]]

\* workflowService.ts:336, the requirement that starts the simulation
SimulationCommand == << "/", "t", "e", "s", "t" >>

\* the requirement texts of a WorkflowRequest
Requirements ==
  { << "f", "i", "x" >>, << "/", "t", "e", "s", "t" >>, << " ", "/", "T", "e", "s", "t", "\n" >>,
    << "/", "t", "e", "s", "t", "s" >> }

\* WorkflowRequest (types.ts:17-23); logFiles is optional, so it says whether it is given
NoFiles == [given |-> FALSE, files |-> << >>]
Files(fs) == [given |-> TRUE, files |-> fs]
WorkflowRequests ==
  { [requirement |-> r, repoUrl |-> "https://github.com/o/r", targetClass |-> t, logsPasted |-> l, logFiles |-> f] :
      r \in Requirements, t \in {Undef, "Klass"}, l \in {Undef, "", "trace"},
      f \in {NoFiles, Files(<< >>), Files(<< "f1" >>), Files(<< "f1", "f2" >>)} }
NoRequest ==
  [requirement |-> << >>, repoUrl |-> "", targetClass |-> Undef, logsPasted |-> Undef, logFiles |-> NoFiles]

\* workflowService.ts:353
HasLogs(req) == Truthy(req.logsPasted) \/ (req.logFiles.given /\ Len(req.logFiles.files) > 0)

\* what a call hands to fetch: the kind of body, the Content-Type header it sets
\* (Undef: none), and the fields of the body (Undef: the field is not there)
NoFetch ==
  [body |-> "none", contentType |-> Undef, requirement |-> << >>, repoUrl |-> Undef,
   targetClass |-> Undef, logsPasted |-> Undef, logFiles |-> NoFiles]
PlainFetch == [NoFetch EXCEPT !.body = "empty"]
JsonFetch == [NoFetch EXCEPT !.body = "json", !.contentType = "application/json"]

\* mutant: the JSON encoding whatever the request holds
StartFetch_AlwaysJson(req) ==
  [body |-> "json", contentType |-> "application/json", requirement |-> req.requirement,
   repoUrl |-> req.repoUrl, targetClass |-> req.targetClass, logsPasted |-> req.logsPasted,
   logFiles |-> req.logFiles]

\* workflowService.ts:353-373, the body and the headers of the start call
StartFetch(req) ==
  IF HasLogs(req)
    THEN [body |-> "multipart", contentType |-> Undef, requirement |-> req.requirement,
          repoUrl |-> req.repoUrl,
          targetClass |-> IF Truthy(req.targetClass) THEN req.targetClass ELSE Undef,
          logsPasted |-> IF Truthy(req.logsPasted) THEN req.logsPasted ELSE Undef,
          logFiles |-> IF req.logFiles.given THEN req.logFiles ELSE NoFiles]
    ELSE [body |-> "json", contentType |-> "application/json", requirement |-> req.requirement,
          repoUrl |-> req.repoUrl, targetClass |-> req.targetClass, logsPasted |-> req.logsPasted,
          logFiles |-> req.logFiles]

\* workflowService.ts:336
IsSimulation(req) == ToLowerCase(Trim(req.requirement)) = SimulationCommand

\* an error message: its text, the status code it quotes (0: none) and the response
\* text it quotes ("": none)
Message(text, status) == [text |-> text, status |-> status, detail |-> ""]
NoMessage == Message("", 0)

\* how a call settles
Pending == [kind |-> "pending", value |-> "none", message |-> NoMessage]
Resolved(value) == [kind |-> "resolved", value |-> value, message |-> NoMessage]
Rejected(msg) == [kind |-> "rejected", value |-> "none", message |-> msg]

\* the answers of the backend: status, Content-Type header (Undef: none) and body
Statuses == {200, 404, 500}
Ok(resp) == resp.status >= 200 /\ resp.status <= 299
ContentTypes == {Undef, "application/json", "application/json;charset=UTF-8", "text/html"}
\* contentType.indexOf("application/json") !== -1
JsonContentTypes == {"application/json", "application/json;charset=UTF-8"}
\* a body is its text (raw) and what response.json() makes of it: a syntax error
\* (isJson false), null, or an object whose message and error keys are read
Bodies ==
  { [raw |-> "<html>trace</html>", isJson |-> FALSE, isNull |-> FALSE, message |-> Undef, error |-> Undef],
    [raw |-> "null", isJson |-> TRUE, isNull |-> TRUE, message |-> Undef, error |-> Undef] }
  \cup { [raw |-> "{...}", isJson |-> TRUE, isNull |-> FALSE, message |-> m, error |-> e] :
            m \in {Undef, "", "bad repo", "Failed to fetch"}, e \in {Undef, "boom"} }
Responses == [status : Statuses, contentType : ContentTypes, body : Bodies]
NoResponse == [status |-> 0, contentType |-> Undef, body |-> CHOOSE b \in Bodies : ~b.isJson]

\* e.message.includes('Failed to fetch')
FailedToFetch == "Failed to fetch"
UnableToConnect == "Unable to connect to the server. Is the backend running?"

\* the service has no call under way
IdleCall ==
  [service |-> "none", fn |-> "none", phase |-> "idle", request |-> NoRequest, fetch |-> NoFetch,
   response |-> NoResponse, outcome |-> Pending]

\* --------------------------------------------------------------- composer
MaxFiles == 2         \* log files attached to the composer

Http == << "h", "t", "t", "p", ":", "/", "/" >>
Https == << "h", "t", "t", "p", "s", ":", "/", "/" >>

\* what the user can leave in the repository field
RepoUrls ==
  { << >>, << " " >>, Https \o << "x" >>, << " " >> \o Http \o << "x", " " >>, Https, Http \o << " " >>,
    << "f", "t", "p", ":", "/", "/", "x" >>, << "x" >>, Https \o << "a", "\n", "b" >> }

\* what the user can leave in the text area
Inputs == { << >>, << " ", "\n" >>, << "f", "i", "x" >>, << " ", "f", " " >> }

\* part_009:1-10, isValidGitHubUrl: /^https?:\/\/.+$/ on the trimmed text
isValidGitHubUrl(url) ==
  /\ url # << >>
  /\ \E scheme \in {Http, Https} :
        /\ Len(Trim(url)) > Len(scheme)
        /\ SubSeq(Trim(url), 1, Len(scheme)) = scheme
        /\ \A i \in (Len(scheme) + 1)..Len(Trim(url)) : Trim(url)[i] # "\n"

\* mutant: any text that is not blank passes
ValidateRepo_AnyText(url) == Trim(url) # << >>

\* HistorySidebar.tsx:349-360, what validateRepo returns
ValidateRepo(url) == Trim(url) # << >> /\ isValidGitHubUrl(url)

\* HistorySidebar.tsx:349-360, what validateRepo leaves in repoError
RepoErrorOf(url) == IF Trim(url) # << >> /\ ~isValidGitHubUrl(url) THEN "Invalid URL" ELSE ""

\* what handleSend gave to onSend, if it called it
NotSent == [called |-> FALSE, repoUrl |-> << >>, logsPasted |-> FALSE, logFiles |-> 0]

\* HistorySidebar.tsx:318-325, the composer as it mounts
NewComposer ==
  [input |-> << >>, repoUrl |-> << >>, repoError |-> "", logFiles |-> 0, detectedLogs |-> FALSE,
   isRepoLocked |-> FALSE, onSend |-> NotSent]

\* --------------------------------------------------------------- identity
MaxUserIds == 3       \* the user ids `user_${Date.now()}_${random}` can give

\* localStorage.getItem of a key that is not there
NoKey == "null"
UserIds == {<< "user", n >> : n \in 1..MaxUserIds}
NoUserId == << "user", 0 >>   \* no id: the stored key is absent, the state is ''
Themes == {"light", "dark"}

\* part_005:14-17 with an empty browser store
NewIdentity ==
  [autoFlowUserId |-> NoUserId, savedTheme |-> NoKey, prefersDark |-> FALSE, userId |-> NoUserId, theme |-> "light"]

\* ----------------------------------------------------------- message list
threshold == 150      \* MessageList.tsx:20

\* distances between the bottom of the content and the bottom of the viewport
\* (scrollHeight - scrollTop - clientHeight, MessageList.tsx:21)
Positions == {0, 100, 149, 150, 151, 400}

\* MessageList.tsx:17-23, with the container mounted
isNearBottom(position) == position < threshold

\* MessageList.tsx:14-15, at the bottom of an empty list
NewMessageList == [showNewMessagesBtn |-> FALSE, autoScrollEnabled |-> TRUE, position |-> 0]

\* ------------------------------------------------------------ chat stream
MaxFrames == 4        \* frames the backend pushes on one chat stream

\* texts are sequences of characters, so that += is a concatenation
Contents == {<< >>, << "a" >>, << "b" >>}

\* the data of an event: its type, its content (has: the key is there) and its message;
\* "unparsed" is an event whose data JSON.parse rejects
StreamTypes == {"CONNECTED", "THINKING", "TOOL", "PARTIAL", "COMPLETE", "ERROR", "unparsed"}
StreamData ==
  {[type |-> t, has |-> FALSE, content |-> << >>, message |-> << "m" >>, tool |-> << "t" >>] : t \in StreamTypes}
    \cup {[type |-> t, has |-> TRUE, content |-> c, message |-> << "m" >>, tool |-> << "t" >>] :
            t \in {"PARTIAL", "COMPLETE"}, c \in Contents}

NoUpdate == [type |-> "none", status |-> Undef, agentName |-> Undef, has |-> FALSE, content |-> << >>]

\* no stream has been opened yet
NoChatStream == [readyState |-> "NONE", fullContent |-> << >>, received |-> << >>, onUpdate |-> NoUpdate,
                 onError |-> FALSE]

\* ------------------------------------------------------------------- Init
Init ==
  /\ conversations = << >>
  /\ currentConversationId = NoConv
  /\ messages = << >>
  /\ isLoading = FALSE
  /\ activeStreamsRef = [c \in ConvIds |-> 0]
  /\ currentConversationIdRef = NoConv
  /\ eventSources = [h \in 1..MaxStreams |-> [readyState |-> "NONE", conv |-> NoConv]]
  /\ pendingHistory = [c \in ConvIds |-> 0]
  /\ pendingStarts = << >>
  /\ lastOp = [op |-> "init", conv |-> NoConv, frame |-> NoFrame]
  /\ conversationList = << >>
  /\ pendingRefresh = 0
  /\ pendingDeletes = << >>
  /\ localStorage = NoItem
  /\ isAppReady = TRUE
  /\ svc = IdleCall
  /\ composer = NewComposer
  /\ identity = NewIdentity
  /\ messageList = NewMessageList
  /\ chatStream = NoChatStream

\* the passive effect of App.tsx:35-37 has run
RefInSync == currentConversationIdRef = currentConversationId

\* ------------------------------------------------- handleWorkflowUpdate
\* App.tsx:125-205 as the values it leaves in each piece of state
UpdateConversations(u, id) == FoldConversations(conversations, id, u)

UpdateMessages(u, id) ==
  IF currentConversationIdRef = id THEN FoldView(messages, u) ELSE messages

UpdateIsLoading(u, id) ==
  IF currentConversationIdRef = id THEN (u.status \notin Terminal) ELSE isLoading

UpdateTable(u, id) ==
  IF u.status \in Terminal THEN CloseStreamTable(activeStreamsRef, id) ELSE activeStreamsRef

UpdateEs(u, id) ==
  IF u.status \in Terminal THEN CloseStreamEs(activeStreamsRef, eventSources, id) ELSE eventSources

\* the state handleWorkflowUpdate reads and writes, as one value
Here ==
  [conversations |-> conversations, messages |-> messages, isLoading |-> isLoading,
   activeStreamsRef |-> activeStreamsRef, eventSources |-> eventSources,
   currentConversationIdRef |-> currentConversationIdRef]

\* mutant: the handler of src/unnamed/part_002:457-491, which has no currentConversationIdRef
\* test on the loading flag: it clears it at the last frame of any conversation, here sets the
\* loading flag from every frame, whatever conversation it belongs to
AfterUpdate_LoadsEveryone(s, u, id, h) ==
  [s EXCEPT
     !.conversations = FoldConversations(@, id, u),
     !.messages = IF s.currentConversationIdRef = id THEN FoldView(@, u) ELSE @,
     !.isLoading = (u.status \notin Terminal),
     !.activeStreamsRef = IF u.status \in Terminal THEN CloseStreamTable(@, id) ELSE @,
     !.eventSources =
        Gc(ServiceClose(IF u.status \in Terminal THEN CloseStreamEs(s.activeStreamsRef, @, id) ELSE @, u, h),
           IF u.status \in Terminal THEN CloseStreamTable(s.activeStreamsRef, id) ELSE s.activeStreamsRef)]

\* App.tsx:125-205 followed by the service's close (workflowService.ts:463-466), as a
\* function of the state it is applied to: frame u of conversation id on EventSource h
AfterUpdate(s, u, id, h) ==
  [s EXCEPT
     !.conversations = FoldConversations(@, id, u),
     !.messages = IF s.currentConversationIdRef = id THEN FoldView(@, u) ELSE @,
     !.isLoading = IF s.currentConversationIdRef = id THEN (u.status \notin Terminal) ELSE @,
     !.activeStreamsRef = IF u.status \in Terminal THEN CloseStreamTable(@, id) ELSE @,
     !.eventSources =
        Gc(ServiceClose(IF u.status \in Terminal THEN CloseStreamEs(s.activeStreamsRef, @, id) ELSE @, u, h),
           IF u.status \in Terminal THEN CloseStreamTable(s.activeStreamsRef, id) ELSE s.activeStreamsRef)]

HandleWorkflowUpdate(u, id, h) ==
  /\ conversations' = UpdateConversations(u, id)
  /\ messages' = UpdateMessages(u, id)
  /\ isLoading' = UpdateIsLoading(u, id)
  /\ activeStreamsRef' = UpdateTable(u, id)
     \* onUpdate has returned: the service closes its own EventSource
  /\ eventSources' = Gc(ServiceClose(UpdateEs(u, id), u, h), UpdateTable(u, id))

\* a frame arrives on an open EventSource (workflowService.ts:458-488)
StreamUpdate(h, u) ==
  /\ eventSources[h].readyState = "OPEN"
  /\ HandleWorkflowUpdate(u, eventSources[h].conv, h)
  /\ lastOp' = [op |-> "update", conv |-> eventSources[h].conv, frame |-> u]
  /\ UNCHANGED chatVars
  /\ UNCHANGED << currentConversationId, currentConversationIdRef, pendingHistory, pendingStarts >>
  /\ UNCHANGED auxVars

\* App.tsx:212-218
FailStatus == [status |-> "FAILED", message |-> ConnectionLost, agent |-> "System", progress |-> 0]

\* the transport reports an error (workflowService.ts:490-497), App.tsx:208-222
StreamError(h) ==
  /\ eventSources[h].readyState # "NONE"
  /\ eventSources[h].readyState # "CLOSED"
  /\ conversations' = UpdateConversations(FailStatus, eventSources[h].conv)
  /\ messages' = UpdateMessages(FailStatus, eventSources[h].conv)
  /\ isLoading' = UpdateIsLoading(FailStatus, eventSources[h].conv)
  /\ activeStreamsRef' = UpdateTable(FailStatus, eventSources[h].conv)
     \* onError has returned: the service closes its own EventSource
  /\ eventSources' = Gc(ErrorClose(UpdateEs(FailStatus, eventSources[h].conv), h),
                        UpdateTable(FailStatus, eventSources[h].conv))
  /\ lastOp' = [op |-> "error", conv |-> eventSources[h].conv, frame |-> FailStatus]
  /\ UNCHANGED chatVars
  /\ UNCHANGED << currentConversationId, currentConversationIdRef, pendingHistory, pendingStarts >>
  /\ UNCHANGED auxVars

\* The connection fails (a response that is not a 200 event stream): the EventSource
\* sets readyState to CLOSED and then fires error, so the guard of onerror
\* (workflowService.ts:492, 207) is false: onError is not called and the coordinator
\* is told nothing.
StreamFailed(h) ==
  /\ eventSources[h].readyState = "OPEN"
  /\ eventSources' = Gc(CloseEs(eventSources, h), activeStreamsRef)
  /\ lastOp' = [op |-> "failed", conv |-> eventSources[h].conv, frame |-> NoFrame]
  /\ UNCHANGED << conversations, currentConversationId, messages, isLoading, activeStreamsRef,
                  currentConversationIdRef, pendingHistory, pendingStarts, chatVars >>
  /\ UNCHANGED auxVars

\* mutant: a frame that does not parse is reported as a stream error
MalformedFrame_Fails(h) ==
  /\ eventSources[h].readyState = "OPEN"
  /\ conversations' = UpdateConversations(FailStatus, eventSources[h].conv)
  /\ messages' = UpdateMessages(FailStatus, eventSources[h].conv)
  /\ isLoading' = UpdateIsLoading(FailStatus, eventSources[h].conv)
  /\ activeStreamsRef' = UpdateTable(FailStatus, eventSources[h].conv)
  /\ eventSources' = Gc(ErrorClose(UpdateEs(FailStatus, eventSources[h].conv), h),
                        UpdateTable(FailStatus, eventSources[h].conv))
  /\ lastOp' = [op |-> "malformed", conv |-> eventSources[h].conv, frame |-> NoFrame]
  /\ UNCHANGED << currentConversationId, currentConversationIdRef, pendingHistory, pendingStarts, chatVars >>
  /\ UNCHANGED auxVars

\* A frame that is not JSON arrives on an open EventSource: JSON.parse throws inside
\* the try of the handler (workflowService.ts:460-469, 475-487, 125-199), the catch
\* logs, and neither onUpdate nor onError nor close is called.
MalformedFrame(h) ==
  /\ eventSources[h].readyState = "OPEN"
  /\ lastOp' = [op |-> "malformed", conv |-> eventSources[h].conv, frame |-> NoFrame]
  /\ UNCHANGED << conversations, currentConversationId, messages, isLoading, activeStreamsRef,
                  currentConversationIdRef, eventSources, pendingHistory, pendingStarts, chatVars >>
  /\ UNCHANGED auxVars

\* App.tsx:35-37
SyncRefEffect ==
  /\ ~RefInSync
  /\ currentConversationIdRef' = currentConversationId
  /\ lastOp' = [op |-> "effect", conv |-> currentConversationId, frame |-> NoFrame]
  /\ UNCHANGED chatVars
  /\ UNCHANGED << conversations, currentConversationId, messages, isLoading, activeStreamsRef,
                  eventSources, pendingHistory, pendingStarts >>
  /\ UNCHANGED auxVars

\* ------------------------------------------------------- user intents
Supersede(starts) == [i \in 1..Len(starts) |-> [starts[i] EXCEPT !.superseded = TRUE]]

\* mutant: a new chat closes the subscriptions, as the single-stream coordinator did
StartNewChat_ClosesStreams ==
  /\ RefInSync
  /\ currentConversationId' = NoConv
  /\ currentConversationIdRef' = NoConv
  /\ messages' = << >>
  /\ isLoading' = FALSE
  /\ pendingStarts' = Supersede(pendingStarts)
  /\ activeStreamsRef' = [c \in ConvIds |-> 0]
  /\ eventSources' = [h \in 1..MaxStreams |-> [readyState |-> "NONE", conv |-> NoConv]]
  /\ lastOp' = [op |-> "newChat", conv |-> NoConv, frame |-> NoFrame]
  /\ UNCHANGED << conversations, pendingHistory, chatVars >>
  /\ UNCHANGED auxVars

\* App.tsx:225-231
StartNewChat ==
  /\ RefInSync
  /\ currentConversationId' = NoConv
  /\ currentConversationIdRef' = NoConv
  /\ messages' = << >>
  /\ isLoading' = FALSE
  /\ pendingStarts' = Supersede(pendingStarts)
  /\ lastOp' = [op |-> "newChat", conv |-> NoConv, frame |-> NoFrame]
  /\ UNCHANGED chatVars
  /\ UNCHANGED << conversations, activeStreamsRef, eventSources, pendingHistory >>
  /\ UNCHANGED auxVars

\* App.tsx:249-250
IsRunningLocal(msgs) ==
  Len(msgs) > 0 /\ Last(msgs).sender = "agent" /\ Last(msgs).status = "RUNNING"

\* App.tsx:233-255, up to the await
LoadConversation(id) ==
  /\ RefInSync
  /\ HasConv(conversations, id)
  /\ pendingHistory[id] < MaxHistoryCalls
  /\ currentConversationId' = id
  /\ currentConversationIdRef' = id
  /\ messages' = FindConv(conversations, id).messages
  /\ isLoading' = IsRunningLocal(FindConv(conversations, id).messages)
  /\ pendingHistory' = [pendingHistory EXCEPT ![id] = @ + 1]
  /\ pendingStarts' = Supersede(pendingStarts)
  /\ lastOp' = [op |-> "load", conv |-> id, frame |-> NoFrame]
  /\ UNCHANGED chatVars
  /\ UNCHANGED << conversations, activeStreamsRef, eventSources >>
  /\ UNCHANGED auxVars

\* App.tsx:255-291, getHistory resolved with (fetched, serverStatus)
HistoryResolved(id, fetched, serverStatus) ==
  /\ pendingHistory[id] > 0
  /\ pendingHistory' = [pendingHistory EXCEPT ![id] = @ - 1]
  /\ messages' = fetched
  /\ conversations' = MapConv(conversations, id, fetched)
  /\ IF serverStatus = "RUNNING"
       THEN /\ isLoading' = TRUE
            /\ IF activeStreamsRef[id] = 0
                 THEN /\ NextEs <= MaxStreams
                      /\ eventSources' = OpenEs(eventSources, NextEs, id)
                      /\ activeStreamsRef' = [activeStreamsRef EXCEPT ![id] = NextEs]
                 ELSE UNCHANGED << eventSources, activeStreamsRef >>
       ELSE /\ isLoading' = FALSE
            /\ eventSources' = Gc(CloseStreamEs(activeStreamsRef, eventSources, id),
                                  CloseStreamTable(activeStreamsRef, id))
            /\ activeStreamsRef' = CloseStreamTable(activeStreamsRef, id)
  /\ lastOp' = [op |-> "history", conv |-> id, frame |-> [NoFrame EXCEPT !.status = serverStatus]]
  /\ UNCHANGED chatVars
  /\ UNCHANGED << currentConversationId, currentConversationIdRef, pendingStarts >>
  /\ UNCHANGED auxVars

\* App.tsx:293-295, getHistory rejected
HistoryRejected(id) ==
  /\ pendingHistory[id] > 0
  /\ pendingHistory' = [pendingHistory EXCEPT ![id] = @ - 1]
  /\ lastOp' = [op |-> "historyFailed", conv |-> id, frame |-> NoFrame]
  /\ UNCHANGED chatVars
  /\ UNCHANGED << conversations, currentConversationId, messages, isLoading, activeStreamsRef,
                  currentConversationIdRef, eventSources, pendingStarts >>
  /\ UNCHANGED auxVars

\* what the user can type in the composer
UserTexts == {"q"}

RemoveAt(s, i) == [j \in 1..(Len(s) - 1) |-> IF j < i THEN s[j] ELSE s[j + 1]]

\* App.tsx:298-320, up to the await; the composer is disabled while isLoading (App.tsx:426)
HandleSendMessage(text) ==
  /\ RefInSync
  /\ ~isLoading
  /\ Len(pendingStarts) < MaxStartCalls
  /\ Len(messages) + 2 <= MaxLen
  /\ messages' = Append(messages, UserMsg(text))
  /\ isLoading' = TRUE
  /\ pendingStarts' = Append(pendingStarts,
                             [newMessages |-> Append(messages, UserMsg(text)),
                              currentConversationId |-> currentConversationId,
                              superseded |-> FALSE])
  /\ lastOp' = [op |-> "send", conv |-> currentConversationId, frame |-> NoFrame]
  /\ UNCHANGED chatVars
  /\ UNCHANGED << conversations, currentConversationId, currentConversationIdRef,
                  activeStreamsRef, eventSources, pendingHistory >>
  /\ UNCHANGED auxVars

\* Conversation ids are opaque strings chosen by the backend: it answers with an id
\* the client knows, or with a new one, which is named by the first unused name.
KnownIds == {conversations[i].id : i \in 1..Len(conversations)}
ServerIds ==
  KnownIds \cup (IF "c1" \notin KnownIds THEN {"c1"} ELSE IF "c2" \notin KnownIds THEN {"c2"} ELSE {})

\* App.tsx:331-339
Placeholder(response) ==
  AgentMsg(Or(response.message, Initializing), Or(response.status, "RUNNING"),
           Or(response.agent, "System"),
           IF response.progress = NoProgress THEN 0 ELSE response.progress)

\* mutant: the conversation is prepended without looking for its id in the list
RegisterConversation_AlwaysPrepends(convs, id, msgs) ==
  << [id |-> id, messages |-> msgs] >> \o convs

\* App.tsx:345-357
RegisterConversation(convs, id, msgs) ==
  IF HasConv(convs, id) THEN MapConv(convs, id, msgs)
  ELSE << [id |-> id, messages |-> msgs] >> \o convs

\* App.tsx:327-368, startWorkflow resolved with response
StartResolved(i, response) ==
  /\ i \in 1..Len(pendingStarts)
  /\ response.conversationId \in ServerIds
  /\ NextEs <= MaxStreams
  /\ currentConversationId' = response.conversationId
  /\ messages' = Append(pendingStarts[i].newMessages, Placeholder(response))
  /\ conversations' = RegisterConversation(conversations, response.conversationId,
                          Append(pendingStarts[i].newMessages, Placeholder(response)))
  /\ eventSources' = Gc(OpenEs(CloseStreamEs(activeStreamsRef, eventSources, response.conversationId),
                               NextEs, response.conversationId),
                        [activeStreamsRef EXCEPT ![response.conversationId] = NextEs])
  /\ activeStreamsRef' = [activeStreamsRef EXCEPT ![response.conversationId] = NextEs]
  /\ pendingStarts' = RemoveAt(pendingStarts, i)
  /\ lastOp' = [op |-> "started", conv |-> response.conversationId,
                frame |-> [NoFrame EXCEPT !.status = IF pendingStarts[i].superseded THEN "superseded" ELSE Undef]]
  /\ UNCHANGED chatVars
  /\ UNCHANGED << isLoading, currentConversationIdRef, pendingHistory >>
  /\ UNCHANGED auxVars

\* App.tsx:370-390, startWorkflow rejected
StartRejected(i) ==
  /\ i \in 1..Len(pendingStarts)
  /\ isLoading' = FALSE
  /\ messages' = Append(pendingStarts[i].newMessages,
                        AgentMsg(StartError, "FAILED", Undef, NoProgress))
  /\ conversations' =
       IF pendingStarts[i].currentConversationId # NoConv
         THEN MapConv(conversations, pendingStarts[i].currentConversationId,
                      Append(pendingStarts[i].newMessages,
                             AgentMsg(StartError, "FAILED", Undef, NoProgress)))
         ELSE conversations
  /\ pendingStarts' = RemoveAt(pendingStarts, i)
  /\ lastOp' = [op |-> "startFailed", conv |-> pendingStarts[i].currentConversationId, frame |-> NoFrame]
  /\ UNCHANGED chatVars
  /\ UNCHANGED << currentConversationId, currentConversationIdRef, activeStreamsRef,
                  eventSources, pendingHistory >>
  /\ UNCHANGED auxVars

\* The page is reloaded: the in-memory state starts again (App.tsx:13-32), calls in
\* flight and EventSource objects are gone with the page, and hydration reads back
\* the conversation list that the persistence effect mirrors on every change
\* (App.tsx:54-68, 93-97).
Reload ==
  /\ conversations' = conversations
  /\ currentConversationId' = NoConv
  /\ currentConversationIdRef' = NoConv
  /\ messages' = << >>
  /\ isLoading' = FALSE
  /\ activeStreamsRef' = [c \in ConvIds |-> 0]
  /\ eventSources' = [h \in 1..MaxStreams |-> [readyState |-> "NONE", conv |-> NoConv]]
  /\ pendingHistory' = [c \in ConvIds |-> 0]
  /\ pendingStarts' = << >>
  /\ lastOp' = [op |-> "reload", conv |-> NoConv, frame |-> NoFrame]
  /\ UNCHANGED chatVars
  /\ UNCHANGED auxVars

\* ------------------------------------------------------------------- Next
Next ==
  \/ StartNewChat
  \/ \E id \in ConvIds : LoadConversation(id)
  \/ \E id \in ConvIds, fetched \in Histories, st \in HistoryStatuses : HistoryResolved(id, fetched, st)
  \/ \E id \in ConvIds : HistoryRejected(id)
  \/ \E text \in UserTexts : HandleSendMessage(text)
  \/ \E i \in 1..MaxStartCalls, response \in StartResponses : StartResolved(i, response)
  \/ \E i \in 1..MaxStartCalls : StartRejected(i)
  \/ \E h \in 1..MaxStreams, u \in Frames : StreamUpdate(h, u)
  \/ \E h \in 1..MaxStreams : StreamError(h)
  \/ \E h \in 1..MaxStreams : StreamFailed(h)
  \/ \E h \in 1..MaxStreams : MalformedFrame(h)
  \/ SyncRefEffect
  \/ Reload

Spec == Init /\ [][Next]_vars

TypeOK ==
  /\ currentConversationId \in ConvIds \cup {NoConv}
  /\ currentConversationIdRef \in ConvIds \cup {NoConv}
  /\ isLoading \in BOOLEAN
  /\ \A c \in ConvIds : activeStreamsRef[c] \in 0..MaxStreams

\* =========================================================================
\* The chat coordinator (src/unnamed/part_005, built on chatService).  It keeps
\* no stored message records: the conversation list holds summaries, and the
\* rendered list is the only copy of the messages.  It assigns
\* currentConversationIdRef together with the state (part_005:180, 195, 303),
\* so the passive effect of part_005:37-39 never finds the ref different.
\* =========================================================================
ChatError == "Error: x"
ChatConnectionLost == "Connection lost."
SendError == "Error: send failed"

\* what connectToStream hands to onUpdate (workflowService.ts:129-195)
ChatFrames ==
  { [type |-> "CONNECTED", status |-> "RUNNING",   agentName |-> "System",    content |-> Undef],
    [type |-> "PARTIAL",   status |-> "RUNNING",   agentName |-> "Assistant", content |-> "a"],
    [type |-> "COMPLETE",  status |-> "COMPLETED", agentName |-> "Assistant", content |-> "b"],
    [type |-> "ERROR",     status |-> "FAILED",    agentName |-> "System",    content |-> ChatError] }

ChatMsg(role, text, st, ag) == [role |-> role, content |-> text, status |-> st, agentName |-> ag]

\* part_005:211-218, the history of GET /chat/{id}/history as loadConversation maps it
ChatHistories ==
  { << >>,
    << ChatMsg("user", "q", "COMPLETED", Undef) >>,
    << ChatMsg("user", "q", "COMPLETED", Undef), ChatMsg("assistant", "b", "COMPLETED", "Assistant") >> }

Summary(id) == [conversationId |-> id]

\* the lists GET /chat/conversations can answer; getConversations answers [] when it fails
\* (workflowService.ts:57-66)
ServerLists ==
  { << >>, << Summary("c1") >>, << Summary("c2") >>, << Summary("c2"), Summary("c1") >> }

HasSummary(list, id) == \E i \in 1..Len(list) : list[i].conversationId = id

\* Array.prototype.filter
RECURSIVE FilterOut(_, _)
FilterOut(list, id) ==
  IF list = << >> THEN << >>
  ELSE IF list[1].conversationId = id THEN FilterOut(Tail(list), id)
  ELSE << list[1] >> \o FilterOut(Tail(list), id)

ChatInit ==
  /\ conversations = << >>
  /\ currentConversationId = NoConv
  /\ messages = << >>
  /\ isLoading = FALSE
  /\ activeStreamsRef = [c \in ConvIds |-> 0]
  /\ currentConversationIdRef = NoConv
  /\ eventSources = [h \in 1..MaxStreams |-> [readyState |-> "NONE", conv |-> NoConv]]
  /\ pendingHistory = [c \in ConvIds |-> 0]
  /\ pendingStarts = << >>
  /\ lastOp = [op |-> "init", conv |-> NoConv, frame |-> NoFrame]
  /\ conversationList \in ServerLists
  /\ pendingRefresh = 0
  /\ pendingDeletes = << >>
  /\ localStorage = NoItem
  /\ isAppReady = TRUE
  /\ svc = IdleCall
  /\ composer = NewComposer
  /\ identity = NewIdentity
  /\ messageList = NewMessageList
  /\ chatStream = NoChatStream

\* part_005:112-120: the text shown for an update.  The wrap of line 117 applies to a
\* THINKING text that does not start with "Thinking"; connectToStream prefixes every
\* THINKING text with it (workflowService.ts:147), so the text is shown as it is.
DisplayContent(u) == IF Truthy(u.content) THEN u.content ELSE ""

\* part_005:106-144, the updater of the rendered list
ChatFold(msgs, u) ==
  IF Len(msgs) > 0 /\ Last(msgs).role = "assistant"
    THEN [msgs EXCEPT ![Len(msgs)] =
            [@ EXCEPT !.content = IF DisplayContent(u) # "" THEN DisplayContent(u) ELSE @,
                      !.status = u.status, !.agentName = u.agentName]]
    ELSE IF Len(msgs) = 0 \/ Last(msgs).role = "user"
      THEN Append(msgs, ChatMsg("assistant", DisplayContent(u), "RUNNING", Or(u.agentName, "System")))
      ELSE msgs

\* part_005:101-154
HandleStreamUpdate(u, id, h) ==
  LET focused == currentConversationIdRef = id
      done == focused /\ u.status \in Terminal
      tbl == IF done THEN CloseStreamTable(activeStreamsRef, id) ELSE activeStreamsRef
      ess == IF done THEN CloseStreamEs(activeStreamsRef, eventSources, id) ELSE eventSources
  IN  /\ done => pendingRefresh < MaxRefreshCalls
      /\ messages' = IF focused THEN ChatFold(messages, u) ELSE messages
      /\ isLoading' = IF focused THEN (u.status \notin Terminal) ELSE isLoading
      /\ activeStreamsRef' = tbl
         \* workflowService.ts:182, 193: the service closes its EventSource after COMPLETE and ERROR
      /\ eventSources' = Gc(ServiceClose(ess, u, h), tbl)
      /\ pendingRefresh' = IF done THEN pendingRefresh + 1 ELSE pendingRefresh

\* a frame arrives on an open EventSource (workflowService.ts:124-204)
ChatStreamUpdate(h, u) ==
  /\ eventSources[h].readyState = "OPEN"
  /\ HandleStreamUpdate(u, eventSources[h].conv, h)
  /\ lastOp' = [op |-> "update", conv |-> eventSources[h].conv, frame |-> u]
  /\ UNCHANGED << conversations, currentConversationId, currentConversationIdRef, pendingHistory,
                  pendingStarts, conversationList, pendingDeletes >>
  /\ UNCHANGED auxVars

\* part_005:159-170
AppendConnectionLost(msgs) ==
  IF Len(msgs) > 0 /\ Last(msgs).status = "FAILED" THEN msgs
  ELSE Append(msgs, ChatMsg("assistant", ChatConnectionLost, "FAILED", "System"))

ErrorFrame == [type |-> "ERROR", status |-> "FAILED", agentName |-> "System", content |-> ChatConnectionLost]

\* the transport reports an error (workflowService.ts:206-212), part_005:156-174
ChatStreamError(h) ==
  /\ eventSources[h].readyState = "OPEN"
  /\ LET id == eventSources[h].conv
         focused == currentConversationIdRef = id
     IN  /\ messages' = IF focused THEN AppendConnectionLost(messages) ELSE messages
         /\ isLoading' = IF focused THEN FALSE ELSE isLoading
         /\ activeStreamsRef' = CloseStreamTable(activeStreamsRef, id)
         /\ eventSources' = Gc(ErrorClose(CloseStreamEs(activeStreamsRef, eventSources, id), h),
                               CloseStreamTable(activeStreamsRef, id))
         /\ lastOp' = [op |-> "error", conv |-> id, frame |-> ErrorFrame]
  /\ UNCHANGED << conversations, currentConversationId, currentConversationIdRef, pendingHistory,
                  pendingStarts, chatVars >>
  /\ UNCHANGED auxVars

\* part_005:178-185
ChatStartNewChat ==
  /\ currentConversationId' = NoConv
  /\ currentConversationIdRef' = NoConv
  /\ messages' = << >>
  /\ isLoading' = FALSE
  /\ pendingStarts' = Supersede(pendingStarts)
  /\ lastOp' = [op |-> "newChat", conv |-> NoConv, frame |-> NoFrame]
  /\ UNCHANGED << conversations, activeStreamsRef, eventSources, pendingHistory, chatVars >>
  /\ UNCHANGED auxVars

\* part_005:187-209, up to the await; the sidebar offers the conversations of the list
ChatLoadConversation(id) ==
  /\ HasSummary(conversationList, id)
  /\ pendingHistory[id] < MaxHistoryCalls
  /\ currentConversationId' = id
  /\ currentConversationIdRef' = id
  /\ messages' = << >>
  /\ isLoading' = TRUE
  /\ pendingHistory' = [pendingHistory EXCEPT ![id] = @ + 1]
  /\ pendingStarts' = Supersede(pendingStarts)
  /\ lastOp' = [op |-> "load", conv |-> id, frame |-> NoFrame]
  /\ UNCHANGED << conversations, activeStreamsRef, eventSources, chatVars >>
  /\ UNCHANGED auxVars

\* part_005:211-234, getHistory and getConversationStatus both resolved
ChatHistoryResolved(id, fetched, hasActiveStream) ==
  /\ pendingHistory[id] > 0
  /\ pendingHistory' = [pendingHistory EXCEPT ![id] = @ - 1]
  /\ messages' = fetched
  /\ isLoading' = hasActiveStream
  /\ IF hasActiveStream
       THEN /\ NextEs <= MaxStreams
            /\ eventSources' = Gc(OpenEs(CloseStreamEs(activeStreamsRef, eventSources, id), NextEs, id),
                                  [activeStreamsRef EXCEPT ![id] = NextEs])
            /\ activeStreamsRef' = [activeStreamsRef EXCEPT ![id] = NextEs]
       ELSE UNCHANGED << eventSources, activeStreamsRef >>
  /\ lastOp' = [op |-> "history", conv |-> id, frame |-> NoFrame]
  /\ UNCHANGED << conversations, currentConversationId, currentConversationIdRef, pendingStarts, chatVars >>
  /\ UNCHANGED auxVars

\* part_005:236-239, getHistory rejected
ChatHistoryRejected(id) ==
  /\ pendingHistory[id] > 0
  /\ pendingHistory' = [pendingHistory EXCEPT ![id] = @ - 1]
  /\ isLoading' = FALSE
  /\ lastOp' = [op |-> "historyFailed", conv |-> id, frame |-> NoFrame]
  /\ UNCHANGED << conversations, currentConversationId, messages, activeStreamsRef,
                  currentConversationIdRef, eventSources, pendingStarts, chatVars >>
  /\ UNCHANGED auxVars

\* part_005:253-290, up to the await; the composer is disabled while isLoading (part_005:369)
ChatSendMessage(text) ==
  /\ ~isLoading
  /\ Len(pendingStarts) < MaxStartCalls
  /\ Len(messages) + 2 <= MaxLen
  /\ messages' = Append(messages, ChatMsg("user", text, "COMPLETED", Undef))
  /\ isLoading' = TRUE
  /\ pendingStarts' = Append(pendingStarts,
                             [isNew |-> currentConversationId = NoConv,
                              currentConversationId |-> currentConversationId,
                              superseded |-> FALSE])
  /\ lastOp' = [op |-> "send", conv |-> currentConversationId, frame |-> NoFrame]
  /\ UNCHANGED << conversations, currentConversationId, currentConversationIdRef,
                  activeStreamsRef, eventSources, pendingHistory, chatVars >>
  /\ UNCHANGED auxVars

\* the id POST /chat answers with: the id of the request for a follow-up, an id of the
\* backend's choice for a new conversation
AnswerIds(call) == IF call.isNew THEN ConvIds ELSE {call.currentConversationId}

\* part_005:299-321, sendMessage resolved with convId
ChatSendResolved(i, convId) ==
  /\ i \in 1..Len(pendingStarts)
  /\ convId \in AnswerIds(pendingStarts[i])
  /\ NextEs <= MaxStreams
  /\ IF pendingStarts[i].isNew
       THEN /\ currentConversationId' = convId
            /\ currentConversationIdRef' = convId
            /\ Len(conversationList) < MaxList
            /\ conversationList' = << Summary(convId) >> \o conversationList
       ELSE UNCHANGED << currentConversationId, currentConversationIdRef, conversationList >>
  /\ eventSources' = Gc(OpenEs(CloseStreamEs(activeStreamsRef, eventSources, convId), NextEs, convId),
                        [activeStreamsRef EXCEPT ![convId] = NextEs])
  /\ activeStreamsRef' = [activeStreamsRef EXCEPT ![convId] = NextEs]
  /\ pendingStarts' = RemoveAt(pendingStarts, i)
  /\ lastOp' = [op |-> "started", conv |-> convId, frame |-> NoFrame]
  /\ UNCHANGED << conversations, messages, isLoading, pendingHistory, pendingRefresh, pendingDeletes >>
  /\ UNCHANGED auxVars

\* part_005:323-333, sendMessage rejected
ChatSendRejected(i) ==
  /\ i \in 1..Len(pendingStarts)
  /\ Len(messages) < MaxLen + 1
  /\ messages' = Append(messages, ChatMsg("assistant", SendError, "FAILED", Undef))
  /\ isLoading' = FALSE
  /\ pendingStarts' = RemoveAt(pendingStarts, i)
  /\ lastOp' = [op |-> "startFailed", conv |-> pendingStarts[i].currentConversationId, frame |-> NoFrame]
  /\ UNCHANGED << conversations, currentConversationId, currentConversationIdRef, activeStreamsRef,
                  eventSources, pendingHistory, chatVars >>
  /\ UNCHANGED auxVars

\* part_005:86-89, getConversations resolved with list
RefreshResolved(list) ==
  /\ pendingRefresh > 0
  /\ pendingRefresh' = pendingRefresh - 1
  /\ conversationList' = list
  /\ lastOp' = [op |-> "refreshed", conv |-> NoConv, frame |-> NoFrame]
  /\ UNCHANGED << conversations, currentConversationId, messages, isLoading, activeStreamsRef,
                  currentConversationIdRef, eventSources, pendingHistory, pendingStarts, pendingDeletes >>
  /\ UNCHANGED auxVars

\* part_005:249
DeleteAlert == "Failed to delete conversation"

\* mutant: the summary is taken out of the list before the backend has answered
HandleDeleteConversation_Optimistic(id) ==
  /\ HasSummary(conversationList, id)
  /\ Len(pendingDeletes) < MaxDeleteCalls
  /\ pendingDeletes' = Append(pendingDeletes, [id |-> id, currentConversationId |-> currentConversationId])
  /\ conversationList' = FilterOut(conversationList, id)
  /\ lastOp' = [op |-> "delete", conv |-> id, frame |-> NoFrame]
  /\ UNCHANGED << conversations, currentConversationId, messages, isLoading, activeStreamsRef,
                  currentConversationIdRef, eventSources, pendingHistory, pendingStarts,
                  pendingRefresh >>
  /\ UNCHANGED auxVars

\* part_005:242-245, up to the await (the user confirmed)
HandleDeleteConversation(id) ==
  /\ HasSummary(conversationList, id)
  /\ Len(pendingDeletes) < MaxDeleteCalls
  /\ pendingDeletes' = Append(pendingDeletes, [id |-> id, currentConversationId |-> currentConversationId])
  /\ lastOp' = [op |-> "delete", conv |-> id, frame |-> NoFrame]
  /\ UNCHANGED << conversations, currentConversationId, messages, isLoading, activeStreamsRef,
                  currentConversationIdRef, eventSources, pendingHistory, pendingStarts,
                  conversationList, pendingRefresh >>
  /\ UNCHANGED auxVars

\* part_005:246-247, deleteConversation resolved
DeleteResolved(i) ==
  /\ i \in 1..Len(pendingDeletes)
  /\ conversationList' = FilterOut(conversationList, pendingDeletes[i].id)
  /\ IF pendingDeletes[i].currentConversationId = pendingDeletes[i].id
       THEN /\ currentConversationId' = NoConv
            /\ currentConversationIdRef' = NoConv
            /\ messages' = << >>
            /\ isLoading' = FALSE
            /\ pendingStarts' = Supersede(pendingStarts)
       ELSE UNCHANGED << currentConversationId, currentConversationIdRef, messages, isLoading, pendingStarts >>
  /\ pendingDeletes' = RemoveAt(pendingDeletes, i)
  /\ lastOp' = [op |-> "deleted", conv |-> pendingDeletes[i].id, frame |-> NoFrame]
  /\ UNCHANGED << conversations, activeStreamsRef, eventSources, pendingHistory, pendingRefresh >>
  /\ UNCHANGED auxVars

\* part_005:248-250, deleteConversation rejected
DeleteRejected(i) ==
  /\ i \in 1..Len(pendingDeletes)
  /\ pendingDeletes' = RemoveAt(pendingDeletes, i)
     \* alert("Failed to delete conversation")
  /\ lastOp' = [op |-> "deleteFailed", conv |-> pendingDeletes[i].id,
                frame |-> [NoFrame EXCEPT !.message = DeleteAlert]]
  /\ UNCHANGED << conversations, currentConversationId, messages, isLoading, activeStreamsRef,
                  currentConversationIdRef, eventSources, pendingHistory, pendingStarts,
                  conversationList, pendingRefresh >>
  /\ UNCHANGED auxVars

\* The stream-side behaviour of the chat coordinator.  Deleting a conversation
\* (HandleDeleteConversation, DeleteResolved, DeleteRejected) touches neither the
\* subscriptions nor, unless the deleted conversation is focused, the view; it is
\* left to the specification of the list.
ChatNext ==
  \/ ChatStartNewChat
  \/ \E id \in ConvIds : ChatLoadConversation(id)
  \/ \E id \in ConvIds, fetched \in ChatHistories, active \in BOOLEAN : ChatHistoryResolved(id, fetched, active)
  \/ \E id \in ConvIds : ChatHistoryRejected(id)
  \/ \E text \in UserTexts : ChatSendMessage(text)
  \/ \E i \in 1..MaxStartCalls, convId \in ConvIds : ChatSendResolved(i, convId)
  \/ \E i \in 1..MaxStartCalls : ChatSendRejected(i)
  \/ \E h \in 1..MaxStreams, u \in ChatFrames : ChatStreamUpdate(h, u)
  \/ \E h \in 1..MaxStreams : ChatStreamError(h)
  \/ \E h \in 1..MaxStreams : StreamFailed(h)
  \/ \E h \in 1..MaxStreams : MalformedFrame(h)
  \/ \E list \in ServerLists : RefreshResolved(list)

ChatSpec == ChatInit /\ [][ChatNext]_vars

\* the frame that ends an answer (workflowService.ts:173-183)
CompleteFrame == [type |-> "COMPLETE", status |-> "COMPLETED", agentName |-> "Assistant", content |-> "b"]

\* The list-side behaviour of the chat coordinator: the conversation list under
\* sends, loads, refreshes and deletes.  Of the stream it keeps the frame that ends
\* an answer, which is what starts a refresh (part_005:146-152).
ListNext ==
  \/ ChatStartNewChat
  \/ \E id \in ConvIds : ChatLoadConversation(id)
  \/ \E id \in ConvIds, fetched \in ChatHistories, active \in BOOLEAN : ChatHistoryResolved(id, fetched, active)
  \/ \E text \in UserTexts : ChatSendMessage(text)
  \/ \E i \in 1..MaxStartCalls, convId \in ConvIds : ChatSendResolved(i, convId)
  \/ \E i \in 1..MaxStartCalls : ChatSendRejected(i)
  \/ \E h \in 1..MaxStreams : ChatStreamUpdate(h, CompleteFrame)
  \/ \E list \in ServerLists : RefreshResolved(list)
  \/ \E id \in ConvIds : HandleDeleteConversation(id)
  \/ \E i \in 1..MaxDeleteCalls : DeleteResolved(i)
  \/ \E i \in 1..MaxDeleteCalls : DeleteRejected(i)

ListSpec == ChatInit /\ [][ListNext]_vars

\* =========================================================================
\* The persistent store (App.tsx:40-77, 93-97): the conversation list of a session,
\* the value under the key 'conversations', and the hydration of the next session.
\* =========================================================================
StoreMessages == {StoreMsg("user", Undef, d) : d \in Dates} \cup {StoreMsg("agent", "RUNNING", d) : d \in Dates}

RECURSIVE SeqsUpTo(_, _)
SeqsUpTo(S, n) ==
  IF n = 0 THEN {<< >>}
  ELSE SeqsUpTo(S, n - 1) \cup {Append(q, x) : q \in {r \in SeqsUpTo(S, n - 1) : Len(r) = n - 1}, x \in S}

\* The lists a session can hold.  A record's own timestamp is new Date() (App.tsx:268,
\* 348, 354); a message's is new Date() (312, 335) or new Date(m.timestamp) of a
\* history message (260), an Invalid Date when the backend sent none.
StoreConversations ==
  {StoreConv(id, d, msgs) : id \in ConvIds, d \in Times, msgs \in SeqsUpTo(StoreMessages, MaxStoredMsgs)}
ConversationLists == SeqsUpTo(StoreConversations, MaxStoredConvs)

StorageContents ==
  {NoItem, NotJson, JsonObject}
    \cup {Stringify(l) : l \in ConversationLists}
    \cup {[kind |-> "array", items |-> << e >>] : e \in {NullElement, NumberElement, NoMessagesElement}}

StoreInit ==
  /\ conversations \in ConversationLists
  /\ localStorage \in StorageContents
  /\ isAppReady = TRUE
  /\ svc = IdleCall
  /\ composer = NewComposer
  /\ identity = NewIdentity
  /\ messageList = NewMessageList
  /\ chatStream = NoChatStream
  /\ currentConversationId = NoConv
  /\ messages = << >>
  /\ isLoading = FALSE
  /\ activeStreamsRef = [c \in ConvIds |-> 0]
  /\ currentConversationIdRef = NoConv
  /\ eventSources = [h \in 1..MaxStreams |-> [readyState |-> "NONE", conv |-> NoConv]]
  /\ pendingHistory = [c \in ConvIds |-> 0]
  /\ pendingStarts = << >>
  /\ lastOp = [op |-> "init", conv |-> NoConv, frame |-> NoFrame]
  /\ conversationList = << >>
  /\ pendingRefresh = 0
  /\ pendingDeletes = << >>

\* what the store's steps leave alone
sessionVars == << currentConversationId, messages, isLoading, activeStreamsRef, currentConversationIdRef,
                 eventSources, pendingHistory, pendingStarts, chatVars, composer, identity,
                 messageList, chatStream, svc >>

\* mutant: the persistence effect of src/unnamed/part_002:60-62, which has no
\* isAppReady guard and writes on the first render too
PersistEffect_Unguarded ==
  /\ localStorage # Stringify(conversations)
  /\ localStorage' = Stringify(conversations)
  /\ lastOp' = [op |-> "persist", conv |-> NoConv, frame |-> NoFrame]
  /\ UNCHANGED << conversations, isAppReady, sessionVars >>

\* App.tsx:93-97, the persistence effect after a render that changed the list
PersistEffect ==
  /\ isAppReady
  /\ localStorage # Stringify(conversations)
  /\ localStorage' = Stringify(conversations)
  /\ lastOp' = [op |-> "persist", conv |-> NoConv, frame |-> NoFrame]
  /\ UNCHANGED << conversations, isAppReady, sessionVars >>

\* the page is loaded again: the state of App.tsx:13-32, the store as it was left
PageLoad ==
  /\ isAppReady
  /\ conversations' = << >>
  /\ isAppReady' = FALSE
  /\ lastOp' = [op |-> "pageLoad", conv |-> NoConv, frame |-> NoFrame]
  /\ UNCHANGED << localStorage, sessionVars >>

\* mutant: the hydrate of src/unnamed/part_003:49-60, which has no inner catch and
\* leaves the key as it is
Hydrate_KeepsKey ==
  /\ ~isAppReady
  /\ conversations' = IF localStorage.kind = "none" \/ ParseThrows(localStorage)
                        THEN conversations ELSE HydrateList(localStorage)
  /\ isAppReady' = TRUE
  /\ lastOp' = [op |-> "hydrate", conv |-> NoConv,
                frame |-> [NoFrame EXCEPT !.status = IF ParseThrows(localStorage) THEN "unparsed" ELSE Undef]]
  /\ UNCHANGED << localStorage, sessionVars >>

\* App.tsx:40-77, hydrate
Hydrate ==
  /\ ~isAppReady
  /\ IF localStorage.kind = "none"
       THEN UNCHANGED << conversations, localStorage >>
       ELSE IF ParseThrows(localStorage)
         THEN /\ localStorage' = NoItem
              /\ UNCHANGED conversations
         ELSE /\ conversations' = HydrateList(localStorage)
              /\ UNCHANGED localStorage
  /\ isAppReady' = TRUE
  /\ lastOp' = [op |-> "hydrate", conv |-> NoConv,
                frame |-> [NoFrame EXCEPT !.status = IF ParseThrows(localStorage) THEN "unparsed" ELSE Undef]]
  /\ UNCHANGED sessionVars

StoreNext == PersistEffect \/ PageLoad \/ Hydrate

StoreSpec == StoreInit /\ [][StoreNext]_vars

\* ------------------------------------------------------------ properties
LiveStreams(c) == {h \in 1..MaxStreams : eventSources[h].readyState = "OPEN" /\ eventSources[h].conv = c}

Opened(h) == eventSources[h].readyState # "OPEN" /\ eventSources'[h].readyState = "OPEN"

Record(c) == FindConv(conversations, c).messages

EndsWithAgent(msgs) == Len(msgs) > 0 /\ Last(msgs).sender = "agent"

\* the message carries the frame: content, status, agent and progress are the frame's
Carries(m, u) ==
  m.sender = "agent" /\ m.content = u.message /\ m.status = u.status
    /\ m.agent = u.agent /\ m.progress = u.progress

StreamCallback == {"update", "error"}

\* at most one EventSource is open for a conversation
OneLivePerConversation == \A c \in ConvIds : Cardinality(LiveStreams(c)) <= 1

OpensAfterClosing ==
  \A h \in 1..MaxStreams :
    Opened(h) =>
      LET c == eventSources'[h].conv
      IN  /\ activeStreamsRef'[c] = h
          /\ activeStreamsRef[c] # 0 =>
                /\ activeStreamsRef[c] # h
                /\ eventSources'[activeStreamsRef[c]].readyState # "OPEN"

\* C1: for every conversation id at most one EventSource opened by the coordinator
\* is open at any time, and when a new one is opened for an id, the handle the table
\* held for that id before is closed.
C1_AtMostOneLiveSubscription == []OneLivePerConversation /\ [][OpensAfterClosing]_vars

\* a second subscription was opened for a conversation that already had one, by a new start
C1_Witness ==
  /\ lastOp.op = "started"
  /\ \E c \in ConvIds : activeStreamsRef[c] = 2 /\ eventSources[2].readyState = "OPEN"
                         /\ eventSources[2].conv = c /\ eventSources[1].readyState = "NONE"

\* C2 (as claimed): a stream update for a conversation that is not the focused one
\* leaves the rendered list and the loading flag unchanged.
C2_BackgroundUpdateLeavesView ==
  [][ (lastOp'.op \in StreamCallback /\ lastOp'.conv # currentConversationId)
        => (messages' = messages /\ isLoading' = isLoading) ]_vars

\* C4 (as claimed): when a subscription delivers a terminal update or reports a transport
\* error, the table has no entry for that conversation when the callback returns,
\* whether or not the conversation is focused.
C4_TerminalRemovesEntry ==
  (lastOp.op \in StreamCallback /\ lastOp.frame.status \in Terminal)
    => activeStreamsRef[lastOp.conv] = 0

\* C3 (as claimed): every stream update for a conversation of the list is folded into
\* its stored record, focused or not: afterwards the record ends with an agent message
\* that carries the update.
C3_UpdateAlwaysFolded ==
  (lastOp.op \in StreamCallback /\ HasConv(conversations, lastOp.conv))
    => (EndsWithAgent(Record(lastOp.conv)) /\ Carries(Last(Record(lastOp.conv)), lastOp.frame))

\* the callback that ran last was given a terminal status
AppliedTerminal == lastOp.op \in StreamCallback /\ lastOp.frame.status \in Terminal

SecondApplicationChangesNothing ==
  /\ UpdateConversations(lastOp.frame, lastOp.conv) = conversations
  /\ UpdateMessages(lastOp.frame, lastOp.conv) = messages
  /\ UpdateIsLoading(lastOp.frame, lastOp.conv) = isLoading

\* C5 (as claimed): applying a terminal update, or the stream-error callback, a second
\* time changes nothing, and the tail message of the conversation carries the
\* terminal status.
C5_TerminalIdempotentAndCarried ==
  AppliedTerminal =>
    /\ SecondApplicationChangesNothing
    /\ HasConv(conversations, lastOp.conv) =>
          (EndsWithAgent(Record(lastOp.conv)) /\ Last(Record(lastOp.conv)).status = lastOp.frame.status)

\* every message of pre that is COMPLETED or FAILED is the same message in post
KeepsTerminal(pre, post) ==
  \A k \in 1..Len(pre) :
    pre[k].status \in Terminal => (k <= Len(post) /\ post[k] = pre[k])

\* C6 (as claimed): a message that has reached COMPLETED or FAILED is not changed by a
\* later stream update or error callback.
C6_StatusOnlyForward ==
  [][ lastOp'.op \in StreamCallback
        => /\ KeepsTerminal(messages, messages')
           /\ \A i \in 1..Len(conversations) :
                 KeepsTerminal(conversations[i].messages, conversations'[i].messages) ]_vars

\* the agent message that carries the frame
FrameMsg(u) == AgentMsg(u.message, u.status, u.agent, u.progress)

\* C7 (as claimed): an update for a list that does not end with an agent message appends
\* an agent message carrying the update, whatever the update's content.
C7_AlwaysAppends ==
  [][ lastOp'.op \in StreamCallback
        => /\ (HasConv(conversations, lastOp'.conv) /\ ~EndsWithAgent(Record(lastOp'.conv)))
                 => FindConv(conversations', lastOp'.conv).messages
                      = Append(Record(lastOp'.conv), FrameMsg(lastOp'.frame))
           /\ (currentConversationIdRef = lastOp'.conv /\ ~EndsWithAgent(messages))
                 => messages' = Append(messages, FrameMsg(lastOp'.frame)) ]_vars

\* C8 (as claimed): a history response for a conversation that is no longer the focused
\* one does not replace the rendered list, does not change the loading flag and opens
\* no subscription.
C8_SupersededHistoryIgnored ==
  [][ (lastOp'.op = "history" /\ lastOp'.conv # currentConversationId)
        => /\ messages' = messages
           /\ isLoading' = isLoading
           /\ \A h \in 1..MaxStreams : ~Opened(h) ]_vars

\* the step resolves a start call that the user has navigated away from
ResolvedSuperseded ==
  \E i \in 1..Len(pendingStarts) :
    pendingStarts[i].superseded /\ pendingStarts' = RemoveAt(pendingStarts, i)

\* C9 (as claimed): a start response (success or failure) that resolves after the user
\* started a new chat or selected another conversation changes neither the focused
\* conversation id nor the rendered list.
C9_SupersededStartIgnored ==
  [][ (lastOp'.op \in {"started", "startFailed"} /\ ResolvedSuperseded)
        => (currentConversationId' = currentConversationId /\ messages' = messages) ]_vars

\* the handlers that detect an error
ErrorDetected == {"startFailed", "error", "historyFailed"}

CallInFlight == Len(pendingStarts) > 0 \/ \E c \in ConvIds : pendingHistory[c] > 0

\* C10 (as claimed): after an error is detected for the focused conversation, the
\* loading flag is false, or a live subscription of the focused conversation (or a
\* call still in flight) remains that can clear it.  Stated for the states in which
\* the ref effect has run, so that the violation does not rest on the stale ref.
C10_NoSpinnerForever ==
  (lastOp.op \in ErrorDetected /\ lastOp.conv = currentConversationId /\ RefInSync /\ isLoading)
    => (LiveStreams(currentConversationId) # {} \/ CallInFlight)

LiveStreamsAfter(c) ==
  {h \in 1..MaxStreams : eventSources'[h].readyState = "OPEN" /\ eventSources'[h].conv = c}

\* C12 (as claimed): when getHistory reports a reopened conversation as RUNNING, then
\* after loadConversation the table holds exactly one live subscription for the id
\* and the loading flag is true; when the table already held one, none is opened.
C12_ReopenHoldsOneLive ==
  [][ (lastOp'.op = "history" /\ lastOp'.frame.status = "RUNNING")
        => /\ isLoading'
           /\ activeStreamsRef'[lastOp'.conv] # 0
           /\ LiveStreamsAfter(lastOp'.conv) = {activeStreamsRef'[lastOp'.conv]}
           /\ activeStreamsRef[lastOp'.conv] # 0 => \A h \in 1..MaxStreams : ~Opened(h) ]_vars

RecordsOf(convs, id) == {i \in 1..Len(convs) : convs[i].id = id}

\* C14: when startWorkflow resolves, the focused id is the id of the response, the
\* rendered list is the list the send built (the list before the send and the user's
\* message) followed by one agent message, the conversation list has exactly one
\* record with that id, and the table records one open subscription for it.
C14_StartRegistersOnce ==
  [][ lastOp'.op = "started"
        => \E i \in 1..Len(pendingStarts) :
             /\ pendingStarts' = RemoveAt(pendingStarts, i)
             /\ currentConversationId' = lastOp'.conv
             /\ Len(messages') = Len(pendingStarts[i].newMessages) + 1
             /\ SubSeq(messages', 1, Len(messages') - 1) = pendingStarts[i].newMessages
             /\ Last(pendingStarts[i].newMessages).sender = "user"
             /\ Last(messages').sender = "agent"
             /\ Cardinality(RecordsOf(conversations', lastOp'.conv)) = 1
             /\ FindConv(conversations', lastOp'.conv).messages = messages'
             /\ activeStreamsRef'[lastOp'.conv] # 0
             /\ LiveStreamsAfter(lastOp'.conv) = {activeStreamsRef'[lastOp'.conv]} ]_vars

\* a start resolved with the id of a conversation that was in the list and had a subscription
C14_Witness ==
  /\ lastOp.op = "started"
  /\ Len(conversations) = 1
  /\ activeStreamsRef[lastOp.conv] = 2
  /\ currentConversationId = lastOp.conv
  /\ Len(messages) = 2

\* ------------------------------------------------------------ happy path
\* the frame that ends a successful run
CompletedFrame == [status |-> "COMPLETED", message |-> "b", agent |-> "Coder", progress |-> 2]

\* The coordinator under the conditions of a run that goes well: React runs the
\* passive effect it has scheduled, and the backend ends every stream it has open
\* with a COMPLETED frame.
HappySpec ==
  /\ Init
  /\ [][Next]_vars
  /\ WF_vars(SyncRefEffect)
  /\ \A h \in 1..MaxStreams : WF_vars(StreamUpdate(h, CompletedFrame))

\* the run of conversation c has ended well on the screen
EndedWell(c) ==
  /\ currentConversationId = c
  /\ Len(messages) > 0
  /\ Last(messages).sender = "agent"
  /\ Last(messages).status = "COMPLETED"
  /\ ~isLoading
  /\ activeStreamsRef[c] = 0

\* something other than a stream frame or the ref effect has happened: the user
\* has acted, a call has come back, or a stream has broken
LeftHappyPath == lastOp.op \notin {"started", "update", "effect", "malformed"}

\* C15: a send shows the user's message while the start call is in flight; and once
\* the start has succeeded for conversation c, if the user stays and the stream
\* delivers its frames up to COMPLETED, the screen eventually shows c with a
\* COMPLETED agent message last, the loading flag false and no table entry for c.
C15_HappyPathEndsWell ==
  /\ [][ lastOp'.op = "send"
          => /\ Last(messages').sender = "user"
             /\ Len(pendingStarts') = Len(pendingStarts) + 1 ]_vars
  /\ \A c \in ConvIds :
       (lastOp.op = "started" /\ lastOp.conv = c /\ lastOp.frame.status # "superseded")
          ~> (EndedWell(c) \/ LeftHappyPath)

\* the author of a message, in either coordinator's message type
FromUser(m) == IF "sender" \in DOMAIN m THEN m.sender = "user" ELSE m.role = "user"

\* the call that the step has taken out of pendingStarts was not superseded
ResolvedCurrent ==
  \E i \in 1..Len(pendingStarts) :
    ~pendingStarts[i].superseded /\ pendingStarts' = RemoveAt(pendingStarts, i)

\* C16: when the start call rejects (and the user is still on the view that sent),
\* the rendered list ends with the user's message followed by one FAILED agent
\* message, the loading flag is false, and no subscription is opened or recorded.
C16_RejectedStartShown ==
  [][ (lastOp'.op = "startFailed" /\ ResolvedCurrent)
        => /\ Len(messages') >= 2
           /\ ~FromUser(Last(messages'))
           /\ Last(messages').status = "FAILED"
           /\ FromUser(messages'[Len(messages') - 1])
           /\ Len(messages') = 2 \/ ~(~FromUser(messages'[Len(messages') - 2])
                                        /\ messages'[Len(messages') - 2].status = "FAILED")
           /\ ~isLoading'
           /\ UNCHANGED << activeStreamsRef, eventSources >> ]_vars

\* a callback of the service runs only for a subscription that is open
CallbackFromOpen == lastOp'.op \in {"update", "error"} => LiveStreams(lastOp'.conv) # {}

\* C17: once a COMPLETED or FAILED frame has been passed to onUpdate the channel of
\* that subscription is closed, by the service itself where the coordinator does
\* not close it, and no callback runs for a conversation that has no open subscription.
C17_ServiceClosesAfterTerminal ==
  /\ [][ (lastOp'.op = "update" /\ lastOp'.frame.status \in Terminal)
           => LiveStreamsAfter(lastOp'.conv) = {} ]_vars
  /\ [][CallbackFromOpen]_vars

\* a COMPLETED or FAILED frame of a conversation that is not focused has been delivered:
\* the chat coordinator has closed nothing, and the channel is closed
C17_Witness ==
  /\ lastOp.op = "update"
  /\ lastOp.frame.status \in Terminal
  /\ currentConversationIdRef # lastOp.conv
  /\ activeStreamsRef[lastOp.conv] # 0
  /\ LiveStreams(lastOp.conv) = {}

\* C18: an errored channel calls onError once and is then closed, by the service's
\* own close whatever the coordinator does; nothing reconnects it, so no further
\* callback runs for that subscription.
C18_ErrorReportedOnceThenClosed ==
  /\ [](\A h \in 1..MaxStreams :
          eventSources[h].readyState = "OPEN" => ErrorClose(eventSources, h)[h].readyState = "CLOSED")
  /\ [][ lastOp'.op = "error"
           => /\ LiveStreams(lastOp'.conv) # {}
              /\ LiveStreamsAfter(lastOp'.conv) = {}
              /\ \A h \in 1..MaxStreams : ~Opened(h) ]_vars
  /\ [][ lastOp'.op \in {"error", "failed"} => LiveStreams(lastOp'.conv) # {} ]_vars

\* an error has been reported for a conversation and its channel is closed
C18_Witness ==
  /\ lastOp.op = "error"
  /\ LiveStreams(lastOp.conv) = {}
  /\ activeStreamsRef[lastOp.conv] = 0
  /\ \E c \in ConvIds : LiveStreams(c) # {}

\* C19: a frame that is not JSON calls neither onUpdate nor onError: the coordinator's
\* state and the subscription are as they were, the subscription is open, and every
\* well-formed frame can still be delivered on it.
C19_MalformedFrameIgnored ==
  /\ [][ lastOp'.op = "malformed"
           => /\ LiveStreams(lastOp'.conv) # {}
              /\ UNCHANGED << conversations, currentConversationId, messages, isLoading,
                              activeStreamsRef, currentConversationIdRef, eventSources >> ]_vars
  /\ [](lastOp.op = "malformed"
          => \A h \in LiveStreams(lastOp.conv), u \in Frames : ENABLED StreamUpdate(h, u))

\* a malformed frame has arrived on the stream of the focused, running conversation
C19_Witness ==
  /\ lastOp.op = "malformed"
  /\ currentConversationIdRef = lastOp.conv
  /\ isLoading
  /\ activeStreamsRef[lastOp.conv] \in LiveStreams(lastOp.conv)
  /\ Len(messages) = 2
  /\ Last(messages).status = "RUNNING"

\* new is old with at most its last message changed, or old with one message after it
ChangesAtMostLast(old, new) ==
  \/ Len(new) = Len(old) /\ \A j \in 1..(Len(old) - 1) : new[j] = old[j]
  \/ Len(new) = Len(old) + 1 /\ SubSeq(new, 1, Len(old)) = old

\* C20: a stream update for conversation c changes at most the last message of c, or
\* appends one after it, in c's record and on the screen when the screen shows c;
\* the records of the other conversations, and the screen when it shows another
\* conversation, keep every message.
C20_OnlyLastMessageOfTarget ==
  [][ lastOp'.op = "update"
        => /\ Len(conversations') = Len(conversations)
           /\ \A i \in 1..Len(conversations) :
                 /\ conversations'[i].id = conversations[i].id
                 /\ IF conversations[i].id = lastOp'.conv
                      THEN ChangesAtMostLast(conversations[i].messages, conversations'[i].messages)
                      ELSE conversations'[i].messages = conversations[i].messages
           /\ IF currentConversationId = lastOp'.conv
                THEN ChangesAtMostLast(messages, messages')
                ELSE messages' = messages ]_vars

\* C21: a conversation that a successful start has just put in the local list (or
\* found there) is in the list after the next step, whatever that step is, unless
\* the step is the user's delete.
C21_RegisteredStays ==
  [][ (lastOp.op = "started" /\ lastOp'.op # "deleted"
         /\ (HasSummary(conversationList, lastOp.conv) \/ HasConv(conversations, lastOp.conv)))
        => (HasSummary(conversationList', lastOp.conv) \/ HasConv(conversations', lastOp.conv)) ]_vars

\* C22: handleDeleteConversation leaves the summary list alone until the backend has
\* answered; a successful delete removes the summary; a rejected one leaves the list,
\* the focus and the rendered messages as they are and shows the alert.
C22_DeleteAfterBackend ==
  /\ [][ lastOp'.op = "delete"
           => UNCHANGED << conversationList, currentConversationId, messages >> ]_vars
  /\ [][ lastOp'.op = "deleted" => ~HasSummary(conversationList', lastOp'.conv) ]_vars
  /\ [][ lastOp'.op = "deleteFailed"
           => /\ UNCHANGED << conversationList, currentConversationId, messages >>
              /\ lastOp'.frame.message = DeleteAlert ]_vars

\* the delete of the conversation on the screen has been rejected
C22_Witness ==
  /\ lastOp.op = "deleteFailed"
  /\ HasSummary(conversationList, lastOp.conv)
  /\ currentConversationId = lastOp.conv
  /\ messages # << >>

\* =========================================================================
\* The service layer (src/services/workflowService.ts): one call of workflowService
\* or chatService, from its arguments to the request it gives to fetch, the answer
\* of the backend or the failure of the network, and the promise it settles.
\* =========================================================================
\* what the service's steps leave alone
coordinatorVars == << conversations, currentConversationId, messages, isLoading, activeStreamsRef,
                     currentConversationIdRef, eventSources, pendingHistory, pendingStarts, chatVars,
                     localStorage, isAppReady, composer,
                     identity, messageList, chatStream >>

\* the calls that read telemetry
MetricsCalls ==
  { << "workflow", "getDashboardMetrics" >>, << "workflow", "getConversationMetrics" >>,
    << "workflow", "getFailedCalls" >>, << "workflow", "getProblematicCalls" >>,
    << "chat", "getDashboardMetrics" >>, << "chat", "getConversationMetrics" >>,
    << "chat", "getFailedCalls" >> }
MetricsFns == {c[2] : c \in MetricsCalls}

\* the calls that post JSON, and the calls that only read
PostCalls == { << "workflow", "respondToWorkflow" >>, << "chat", "sendMessage" >> }
GetCalls == { << "workflow", "getHistory" >> } \cup MetricsCalls

\* workflowService.ts:311, 15
ApiError(status) == Message("API Error", status)
\* workflowService.ts:322
ServerError(status) == Message("The server encountered an error. Please check backend logs.", status)

\* json.message || json.error || errorMessage (workflowService.ts:313-320, 17-24); a
\* body that is not JSON, or is null, throws inside the try and leaves the default
JsonErrorMessage(resp) ==
  IF ~resp.body.isJson \/ resp.body.isNull THEN ApiError(resp.status)
  ELSE IF Truthy(resp.body.message) THEN Message(resp.body.message, 0)
  ELSE IF Truthy(resp.body.error) THEN Message(resp.body.error, 0)
  ELSE ApiError(resp.status)

\* mutant: src/unnamed/part_001:37-39, the status followed by the text of the response
HandleApiError_RawBody(service, resp) ==
  [text |-> "API Error", status |-> resp.status, detail |-> resp.body.raw]

\* handleApiError: workflowService.ts:309-326 (workflowService), 14-27 (chatService);
\* the message of the error it throws
HandleApiError(service, resp) ==
  IF resp.contentType \in JsonContentTypes THEN JsonErrorMessage(resp)
  ELSE IF service = "workflow" THEN ServerError(resp.status)
  ELSE ApiError(resp.status)

\* the catch of startWorkflow and sendMessage (workflowService.ts:385-390, 46-51)
Reworded(msg) == IF msg.text = FailedToFetch THEN Message(UnableToConnect, 0) ELSE msg

\* return await response.json()
ReadJson(resp) ==
  IF resp.body.isJson THEN Resolved("body") ELSE Rejected(Message("SyntaxError", 0))

\* how a call settles on an answer of the backend
Settle(service, fn, resp) ==
  IF fn \in {"startWorkflow", "sendMessage"}
    THEN \* workflowService.ts:375-390, 33-52
         IF ~Ok(resp) THEN Rejected(Reworded(HandleApiError(service, resp)))
         ELSE ReadJson(resp)
  ELSE IF fn = "respondToWorkflow"
    THEN \* workflowService.ts:505-519
         IF ~Ok(resp) THEN Rejected(HandleApiError(service, resp)) ELSE ReadJson(resp)
  ELSE IF fn = "getHistory"
    THEN \* workflowService.ts:524-535: data.messages of null throws
         IF ~Ok(resp) THEN Rejected(HandleApiError(service, resp))
         ELSE IF resp.body.isJson /\ resp.body.isNull THEN Rejected(Message("TypeError", 0))
         ELSE ReadJson(resp)
  ELSE IF service = "chat" /\ fn = "getFailedCalls"
    THEN \* workflowService.ts:239-244: no test of response.ok
         IF resp.body.isJson THEN Resolved("body") ELSE Resolved("fallback")
  ELSE \* workflowService.ts:544-595, 221-237
       IF Ok(resp) /\ resp.body.isJson THEN Resolved("body") ELSE Resolved("fallback")

\* how a call settles when fetch rejects with 'Failed to fetch'
SettleFailure(service, fn) ==
  IF fn \in MetricsFns THEN Resolved("fallback")
  ELSE IF fn \in {"startWorkflow", "sendMessage"} THEN Rejected(Reworded(Message(FailedToFetch, 0)))
  ELSE Rejected(Message(FailedToFetch, 0))

\* workflowService.ts:334-381, startWorkflow up to the await of fetch; the simulation
\* resolves by itself and gives nothing to fetch
CallStartWorkflow(req) ==
  /\ svc.phase = "idle"
  /\ svc' = IF IsSimulation(req)
              THEN [IdleCall EXCEPT !.service = "workflow", !.fn = "startWorkflow", !.phase = "done",
                                    !.request = req, !.outcome = Resolved("simulation")]
              ELSE [IdleCall EXCEPT !.service = "workflow", !.fn = "startWorkflow", !.phase = "waiting",
                                    !.request = req, !.fetch = StartFetch(req)]
  /\ lastOp' = [op |-> "call", conv |-> NoConv, frame |-> NoFrame]
  /\ UNCHANGED coordinatorVars

\* the other calls up to the await of fetch
CallService(service, fn) ==
  /\ svc.phase = "idle"
  /\ svc' = [IdleCall EXCEPT !.service = service, !.fn = fn, !.phase = "waiting",
                             !.fetch = IF << service, fn >> \in PostCalls THEN JsonFetch ELSE PlainFetch]
  /\ lastOp' = [op |-> "call", conv |-> NoConv, frame |-> NoFrame]
  /\ UNCHANGED coordinatorVars

\* the backend answers
ServerAnswers(resp) ==
  /\ svc.phase = "waiting"
  /\ svc' = [svc EXCEPT !.phase = "done", !.response = resp,
                        !.outcome = Settle(svc.service, svc.fn, resp)]
  /\ lastOp' = [op |-> "answer", conv |-> NoConv, frame |-> NoFrame]
  /\ UNCHANGED coordinatorVars

\* the backend cannot be reached: fetch rejects
FetchFails ==
  /\ svc.phase = "waiting"
  /\ svc' = [svc EXCEPT !.phase = "done", !.outcome = SettleFailure(svc.service, svc.fn)]
  /\ lastOp' = [op |-> "netfail", conv |-> NoConv, frame |-> NoFrame]
  /\ UNCHANGED coordinatorVars

ServiceNext ==
  \/ \E req \in WorkflowRequests : CallStartWorkflow(req)
  \/ \E c \in PostCalls \cup GetCalls : CallService(c[1], c[2])
  \/ \E resp \in Responses : ServerAnswers(resp)
  \/ FetchFails

ServiceSpec == Init /\ [][ServiceNext]_vars

\* =========================================================================
\* The composer (ChatInput, src/components/HistorySidebar.tsx:297-399).
\* =========================================================================
\* what the composer's steps leave alone
aroundComposer == << conversations, currentConversationId, messages, isLoading, activeStreamsRef,
                    currentConversationIdRef, eventSources, pendingHistory, pendingStarts, chatVars,
                    localStorage, isAppReady, identity,
                    messageList, chatStream, svc >>

\* HistorySidebar.tsx:426, the repository field changes (the field is disabled while
\* the repository is locked, 428)
RepoUrlChange(url) ==
  /\ ~composer.isRepoLocked
  /\ composer' = [composer EXCEPT !.repoUrl = url, !.repoError = RepoErrorOf(url)]
  /\ lastOp' = [op |-> "repoUrl", conv |-> NoConv, frame |-> NoFrame]
  /\ UNCHANGED aroundComposer

\* HistorySidebar.tsx:333-347, handleInputChange; logs are detected only in text
\* that is not blank
HandleInputChange(text, logs) ==
  /\ composer' = [composer EXCEPT !.input = text, !.detectedLogs = (Trim(text) # << >> /\ logs)]
  /\ lastOp' = [op |-> "input", conv |-> NoConv, frame |-> NoFrame]
  /\ UNCHANGED aroundComposer

\* HistorySidebar.tsx:514, onFilesChange
FilesChange(n) ==
  /\ composer' = [composer EXCEPT !.logFiles = n]
  /\ lastOp' = [op |-> "files", conv |-> NoConv, frame |-> NoFrame]
  /\ UNCHANGED aroundComposer

\* the parent renders the composer with another isRepoLocked
RepoLockChange(locked) ==
  /\ composer.isRepoLocked # locked
  /\ composer' = [composer EXCEPT !.isRepoLocked = locked]
  /\ lastOp' = [op |-> "lock", conv |-> NoConv, frame |-> NoFrame]
  /\ UNCHANGED aroundComposer

\* HistorySidebar.tsx:362-390, handleSend (the button, 533, or the Enter key, 392-397)
HandleSend ==
  /\ composer' =
       IF ~ValidateRepo(composer.repoUrl) /\ ~composer.isRepoLocked
         THEN [composer EXCEPT !.repoError = "Required", !.onSend = NotSent]
       ELSE IF Trim(composer.input) = << >> /\ composer.logFiles = 0
         THEN [composer EXCEPT !.repoError = RepoErrorOf(composer.repoUrl), !.onSend = NotSent]
       ELSE [composer EXCEPT
               !.repoError = RepoErrorOf(composer.repoUrl),
               !.onSend = [called |-> TRUE, repoUrl |-> Trim(composer.repoUrl),
                           logsPasted |-> composer.detectedLogs, logFiles |-> composer.logFiles],
               !.input = << >>, !.logFiles = 0, !.detectedLogs = FALSE]
  /\ lastOp' = [op |-> "handleSend", conv |-> NoConv, frame |-> NoFrame]
  /\ UNCHANGED aroundComposer

ComposerNext ==
  \/ \E url \in RepoUrls : RepoUrlChange(url)
  \/ \E text \in Inputs, logs \in BOOLEAN : HandleInputChange(text, logs)
  \/ \E n \in 0..MaxFiles : FilesChange(n)
  \/ \E locked \in BOOLEAN : RepoLockChange(locked)
  \/ HandleSend

ComposerSpec == Init /\ [][ComposerNext]_vars

\* =========================================================================
\* Hydration of the chat coordinator (src/unnamed/part_005:41-76): the theme and the
\* user identity, in the state of the component and in the browser store.
\* =========================================================================
aroundIdentity == << conversations, currentConversationId, messages, isLoading, activeStreamsRef,
                    currentConversationIdRef, eventSources, pendingHistory, pendingStarts,
                    pendingRefresh, pendingDeletes, localStorage, composer,
                    messageList, chatStream, svc >>

\* a page is opened on a browser store that earlier sessions have left
IdentityInit ==
  /\ identity \in { [NewIdentity EXCEPT !.autoFlowUserId = k, !.savedTheme = t, !.prefersDark = d] :
                       k \in UserIds \cup {NoUserId}, t \in Themes \cup {NoKey}, d \in BOOLEAN }
  /\ isAppReady = FALSE
  /\ conversationList = << >>
  /\ conversations = << >>
  /\ currentConversationId = NoConv
  /\ messages = << >>
  /\ isLoading = FALSE
  /\ activeStreamsRef = [c \in ConvIds |-> 0]
  /\ currentConversationIdRef = NoConv
  /\ eventSources = [h \in 1..MaxStreams |-> [readyState |-> "NONE", conv |-> NoConv]]
  /\ pendingHistory = [c \in ConvIds |-> 0]
  /\ pendingStarts = << >>
  /\ lastOp = [op |-> "init", conv |-> NoConv, frame |-> NoFrame]
  /\ pendingRefresh = 0
  /\ pendingDeletes = << >>
  /\ localStorage = NoItem
  /\ svc = IdleCall
  /\ composer = NewComposer
  /\ messageList = NewMessageList
  /\ chatStream = NoChatStream

\* part_005:45-49, the theme hydrate chooses
HydratedTheme(id) ==
  IF id.savedTheme # NoKey THEN id.savedTheme
  ELSE IF id.prefersDark THEN "dark" ELSE id.theme

\* mutant: hydrate makes a new id whatever the store holds
ChatHydrate_AlwaysGenerates(fresh, list) ==
  /\ ~isAppReady
  /\ identity' = [identity EXCEPT !.theme = HydratedTheme(identity),
                                  !.autoFlowUserId = fresh, !.userId = fresh]
  /\ conversationList' = list
  /\ isAppReady' = TRUE
  /\ lastOp' = [op |-> "chatHydrate", conv |-> NoConv,
                frame |-> [NoFrame EXCEPT !.status = IF identity.autoFlowUserId = NoUserId THEN "created" ELSE "kept"]]
  /\ UNCHANGED aroundIdentity

\* part_005:41-71, hydrate: the theme, the user id (made from the clock and a random
\* number when the key is not there), the first fetch of the list, and isAppReady
ChatHydrate(fresh, list) ==
  /\ ~isAppReady
  /\ identity' = [identity EXCEPT
                    !.theme = HydratedTheme(identity),
                    !.autoFlowUserId = IF @ = NoUserId THEN fresh ELSE @,
                    !.userId = IF identity.autoFlowUserId = NoUserId THEN fresh ELSE identity.autoFlowUserId]
  /\ conversationList' = list
  /\ isAppReady' = TRUE
  /\ lastOp' = [op |-> "chatHydrate", conv |-> NoConv,
                frame |-> [NoFrame EXCEPT !.status = IF identity.autoFlowUserId = NoUserId THEN "created" ELSE "kept"]]
  /\ UNCHANGED aroundIdentity

\* part_005:74-82, the theme effect: it runs after every render that changed the
\* theme, the first render included
ThemeEffect ==
  /\ identity.savedTheme # identity.theme
  /\ identity' = [identity EXCEPT !.savedTheme = identity.theme]
  /\ lastOp' = [op |-> "themeEffect", conv |-> NoConv, frame |-> NoFrame]
  /\ UNCHANGED << aroundIdentity, isAppReady, conversationList >>

\* part_005:84, toggleTheme
ToggleTheme ==
  /\ identity' = [identity EXCEPT !.theme = IF @ = "light" THEN "dark" ELSE "light"]
  /\ lastOp' = [op |-> "toggleTheme", conv |-> NoConv, frame |-> NoFrame]
  /\ UNCHANGED << aroundIdentity, isAppReady, conversationList >>

\* the page is loaded again: the state of part_005:11-34, the store as it was left
ChatPageLoad ==
  /\ isAppReady
  /\ identity' = [identity EXCEPT !.userId = NoUserId, !.theme = "light"]
  /\ conversationList' = << >>
  /\ isAppReady' = FALSE
  /\ lastOp' = [op |-> "pageLoad", conv |-> NoConv, frame |-> NoFrame]
  /\ UNCHANGED aroundIdentity

\* the user clears the site data of the browser
StorageCleared ==
  /\ identity.autoFlowUserId # NoUserId \/ identity.savedTheme # NoKey
  /\ identity' = [identity EXCEPT !.autoFlowUserId = NoUserId, !.savedTheme = NoKey]
  /\ lastOp' = [op |-> "storageCleared", conv |-> NoConv, frame |-> NoFrame]
  /\ UNCHANGED << aroundIdentity, isAppReady, conversationList >>

IdentityNext ==
  \/ \E fresh \in UserIds, list \in ServerLists : ChatHydrate(fresh, list)
  \/ ThemeEffect
  \/ ToggleTheme
  \/ ChatPageLoad
  \/ StorageCleared

IdentitySpec == IdentityInit /\ [][IdentityNext]_vars

\* C23: the list that hydration reads back from what the persistence effect wrote
\* is the list that was written: the same records, messages, ids, senders, contents
\* and statuses, and timestamps with the same time value.
C23_StoreRoundTrip ==
  isAppReady => HydrateList(Stringify(conversations)) = conversations

OpenPairs ==
  {p \in (1..MaxStreams) \X (1..MaxStreams) :
     /\ eventSources[p[1]].readyState = "OPEN"
     /\ eventSources[p[2]].readyState = "OPEN"
     /\ eventSources[p[1]].conv # eventSources[p[2]].conv}

\* C25: stream updates of different conversations commute: two frames on the open
\* streams of two different conversations leave the same records, rendered list,
\* loading flag and stream table whichever is handled first; and a handled frame
\* leaves the state that the function compared here gives.
C25_UpdatesCommute ==
  /\ [](\A p \in OpenPairs : \A u1 \in Frames, u2 \in Frames :
          AfterUpdate(AfterUpdate(Here, u1, eventSources[p[1]].conv, p[1]), u2, eventSources[p[2]].conv, p[2])
            = AfterUpdate(AfterUpdate(Here, u2, eventSources[p[2]].conv, p[2]), u1, eventSources[p[1]].conv, p[1]))
  /\ [][ lastOp'.op = "update"
           => \E h \in 1..MaxStreams :
                /\ eventSources[h].readyState = "OPEN"
                /\ eventSources[h].conv = lastOp'.conv
                /\ Here' = AfterUpdate(Here, lastOp'.frame, lastOp'.conv, h) ]_vars

\* a frame has been handled while the stream of another conversation is open, and
\* one of the two conversations is the one on screen
C25_Witness ==
  /\ lastOp.op = "update"
  /\ OpenPairs # {}
  /\ \E p \in OpenPairs : currentConversationIdRef = eventSources[p[1]].conv
  /\ \E i \in 1..Len(conversations) :
        conversations[i].id # currentConversationIdRef /\ conversations[i].messages # << >>

\* the fields of the multipart form of a request
MultipartOf(req, f) ==
  /\ f.body = "multipart"
  /\ f.contentType # "application/json"
  /\ f.requirement = req.requirement
  /\ f.repoUrl = req.repoUrl
  /\ Truthy(req.logsPasted) => f.logsPasted = req.logsPasted
  /\ req.logFiles.given => f.logFiles.files = req.logFiles.files

\* the JSON encoding of a request
JsonOf(f) == f.body = "json" /\ f.contentType = "application/json"

FromBody(m, resp) ==
  /\ m.status = 0
  /\ \/ Truthy(resp.body.message) /\ m.text = resp.body.message
     \/ Truthy(resp.body.error) /\ m.text = resp.body.error

C28_MetricsFallBack ==
  [][ (lastOp'.op \in {"answer", "netfail"} /\ svc'.fn \in MetricsFns)
        => /\ svc'.outcome.kind = "resolved"
           /\ (lastOp'.op = "netfail" \/ ~Ok(svc'.response)) => svc'.outcome.value = "fallback" ]_vars

\* C29: handleSend calls onSend only when the repository URL passes isValidGitHubUrl
\* or the repository is locked, and the text is not blank or a log file is attached;
\* nothing but handleSend calls onSend.
C29_SendOnlyWhenValid ==
  /\ [][ (lastOp'.op = "handleSend" /\ composer'.onSend.called)
           => /\ isValidGitHubUrl(composer.repoUrl) \/ composer.isRepoLocked
              /\ Trim(composer.input) # << >> \/ composer.logFiles > 0 ]_vars
  /\ [][ lastOp'.op # "handleSend" => composer'.onSend = composer.onSend ]_vars

\* a send of log files alone, with a valid URL in an unlocked composer
C29_Witness ==
  /\ lastOp.op = "handleSend"
  /\ composer.onSend.called
  /\ ~composer.isRepoLocked
  /\ composer.onSend.logFiles > 0
  /\ isValidGitHubUrl(composer.repoUrl)

\* a record of the list holds the message
Recorded(convs, msg) ==
  \E j \in 1..Len(convs) : \E k \in 1..Len(convs[j].messages) : convs[j].messages[k] = msg

\* C30: while the start call of the first message of a new chat is under way, a
\* conversation record holds that message; and when the call returns there is
\* exactly one record with the id the server gave.
C30_RecordBeforeStartReturns ==
  /\ [](\A i \in 1..Len(pendingStarts) :
          pendingStarts[i].currentConversationId = NoConv
            => Recorded(conversations, Last(pendingStarts[i].newMessages)))
  /\ [][ lastOp'.op = "started"
           => Cardinality(RecordsOf(conversations', lastOp'.conv)) = 1 ]_vars

\* C34: when a stream callback runs, the value it reads from currentConversationIdRef
\* is the focused conversation id that the last new chat, load or send has set.
C34_CallbackSeesFocus ==
  [][ lastOp'.op \in {"update", "error"} => currentConversationIdRef = currentConversationId ]_vars

\* C35: whenever the loading flag is true and no startWorkflow or getHistory call is
\* in flight, the focused conversation has a live entry in activeStreamsRef.
C35_LoadingHasLiveStream ==
  (isLoading /\ ~CallInFlight)
    => /\ currentConversationId # NoConv
       /\ activeStreamsRef[currentConversationId] # 0
       /\ eventSources[activeStreamsRef[currentConversationId]].readyState = "OPEN"

\* C36: whenever a conversation is focused and no startWorkflow or getHistory call is
\* in flight, the rendered list is the message list of the focused conversation's
\* stored record.
C36_ViewEqualsRecord ==
  (currentConversationId # NoConv /\ ~CallInFlight)
    => /\ HasConv(conversations, currentConversationId)
       /\ FindConv(conversations, currentConversationId).messages = messages

\* C37: every conversation id with an entry in activeStreamsRef is the id of a
\* conversation of the local conversation list (the records of the workflow
\* coordinator, the summaries of the chat coordinator).
C37_StreamsOfListedConversations ==
  \A c \in ConvIds :
    activeStreamsRef[c] # 0 => (HasConv(conversations, c) \/ HasSummary(conversationList, c))

\* the ids of a list, as the list gives them
IdsOf(convs) == [i \in 1..Len(convs) |-> convs[i].id]
SummaryIdsOf(list) == [i \in 1..Len(list) |-> list[i].conversationId]
Distinct(ids) == \A i \in 1..Len(ids) : \A j \in 1..Len(ids) : ids[i] = ids[j] => i = j

\* C39: the ids of the conversations of the local list are pairwise distinct after
\* any sequence of sends, loads, stream updates and list refreshes, and a start that
\* resolves with an id of the list updates that entry and adds none.
C39_DistinctIds ==
  /\ [](Distinct(IdsOf(conversations)) /\ Distinct(SummaryIdsOf(conversationList)))
  /\ [][ (lastOp'.op = "started" /\ HasConv(conversations, lastOp'.conv))
           => Len(conversations') = Len(conversations) ]_vars
  /\ [][ (lastOp'.op = "started" /\ HasSummary(conversationList, lastOp'.conv))
           => Len(conversationList') = Len(conversationList) ]_vars

\* C31: hydration creates and stores autoFlowUserId only when the key is absent;
\* when it is there hydration reads it back into the state and does not rewrite it,
\* and nothing else of the application writes the key.
C31_UserIdGeneratedOnce ==
  /\ [][ lastOp'.op = "chatHydrate"
           => /\ identity.autoFlowUserId # NoUserId => identity'.autoFlowUserId = identity.autoFlowUserId
              /\ identity'.autoFlowUserId # NoUserId
              /\ identity'.userId = identity'.autoFlowUserId ]_vars
  /\ [][ lastOp'.op \notin {"chatHydrate", "storageCleared"}
           => identity'.autoFlowUserId = identity.autoFlowUserId ]_vars

\* a later hydration has read back the id that an earlier one made
C31_Witness ==
  /\ lastOp.op = "chatHydrate"
  /\ lastOp.frame.status = "kept"
  /\ identity.userId = identity.autoFlowUserId
  /\ identity.userId # NoUserId

\* C38: the stored 'conversations' value is never overwritten by the empty initial
\* list: no step writes the key while hydration has not read it yet (only the
\* hydrate itself may remove an unparseable value), and when the stored value
\* was a list that parses, the first write after the hydrate holds a conversation
\* for every stored one, with the same ids in the same order
StoredIds(content) == [i \in 1..Len(content.items) |-> content.items[i].id]
C38_NoWriteBeforeHydration ==
  /\ [][ (~isAppReady /\ lastOp'.op # "hydrate") => localStorage' = localStorage ]_vars
  /\ [][ (~isAppReady /\ lastOp'.op = "hydrate" /\ ~ParseThrows(localStorage))
           => localStorage' = localStorage ]_vars
  /\ [][ (lastOp.op = "hydrate" /\ lastOp.frame.status # "unparsed"
            /\ lastOp'.op = "persist" /\ localStorage.kind = "array")
           => /\ localStorage'.kind = "array"
              /\ StoredIds(localStorage') = StoredIds(localStorage) ]_vars
\* a first write after a hydrate has happened: the stored record had a null
\* timestamp, which only the write after hydration turns into the epoch date
C38_Witness ==
  /\ lastOp.op = "persist"
  /\ localStorage.kind = "array"
  /\ Len(localStorage.items) = 1
  /\ localStorage.items[1].timestamp = JIso(0)
  /\ isAppReady

\* C32: the updates of one conversation are folded in arrival order and the last
\* writer wins: a frame applied to a record whose last message is an agent message
\* leaves the number of messages as it was and the earlier messages untouched, and
\* that message's content, status, progress and agent are the frame's; so after
\* any sequence of frames they are those of the last one
AgentTail(msgs) == Len(msgs) > 0 /\ Last(msgs).sender = "agent"
TailIs(msgs, u) ==
  /\ Last(msgs).sender = "agent"
  /\ Last(msgs).content = u.message
  /\ Last(msgs).status = u.status
  /\ Last(msgs).progress = u.progress
  /\ Last(msgs).agent = u.agent
C32_LastWriterWins ==
  [][ lastOp'.op = "update" =>
        \A i \in 1..Len(conversations) :
          (conversations[i].id = lastOp'.conv /\ AgentTail(conversations[i].messages)) =>
            /\ Len(conversations') = Len(conversations)
            /\ conversations'[i].id = conversations[i].id
            /\ Len(conversations'[i].messages) = Len(conversations[i].messages)
            /\ TailIs(conversations'[i].messages, lastOp'.frame)
            /\ \A k \in 1..(Len(conversations[i].messages) - 1) :
                  conversations'[i].messages[k] = conversations[i].messages[k] ]_vars
\* a frame with an empty message has been written over the tail agent message of
\* the record: the content it had is gone, the terminal status is there
C32_Witness ==
  /\ lastOp.op = "update"
  /\ lastOp.frame.message = ""
  /\ lastOp.frame.status = "COMPLETED"
  /\ HasConv(conversations, lastOp.conv)
  /\ Len(FindConv(conversations, lastOp.conv).messages) = 2
  /\ TailIs(FindConv(conversations, lastOp.conv).messages, lastOp.frame)

\* =========================================================================
\* The message list (src/components/MessageList.tsx): the messages prop, the two
\* flags of the component and the scroll position of its container.
\* =========================================================================
aroundMessageList == << conversations, currentConversationId, isLoading, activeStreamsRef,
                       currentConversationIdRef, eventSources, pendingHistory, pendingStarts, chatVars,
                       localStorage, isAppReady, composer, identity, chatStream, svc >>

\* the lists the coordinator can hand to the component
RenderedLists ==
  SeqsUpTo({UserMsg("q"), AgentMsg("a", "RUNNING", "Coder", 1), AgentMsg("b", "COMPLETED", "Coder", 2)}, MaxLen)

\* MessageList.tsx:25-29
scrollToBottom(ml) ==
  [ml EXCEPT !.position = 0, !.showNewMessagesBtn = FALSE, !.autoScrollEnabled = TRUE]

\* mutant: an effect without the isUserMessage branch, which treats a message of
\* the user as it treats one of the agent
MessagesEffect_NoUserBranch(ml, msgs) ==
  IF Len(msgs) = 0 THEN ml
  ELSE IF ml.autoScrollEnabled THEN scrollToBottom(ml)
  ELSE [ml EXCEPT !.showNewMessagesBtn = TRUE]

\* MessageList.tsx:39-62, the effect on [messages]
MessagesEffect(ml, msgs) ==
  IF Len(msgs) = 0 THEN ml
  ELSE IF Last(msgs).sender = "user" THEN scrollToBottom(ml)
  ELSE IF ml.autoScrollEnabled THEN scrollToBottom(ml)
  ELSE [ml EXCEPT !.showNewMessagesBtn = TRUE]

\* the coordinator renders another list: the content under the viewport grows or
\* stays (no scroll event), then the effect runs
MessagesChange ==
  \E msgs \in RenderedLists, grown \in Positions :
    /\ grown >= messageList.position
    /\ messages' = msgs
    /\ messageList' = MessagesEffect([messageList EXCEPT !.position = grown], msgs)
    /\ lastOp' = [op |-> "messagesChanged", conv |-> NoConv, frame |-> NoFrame]
    /\ UNCHANGED aroundMessageList

\* MessageList.tsx:31-37, onScroll: the user, or a scroll the browser animates,
\* has moved the viewport
handleScroll ==
  \E p \in Positions :
    /\ p # messageList.position
    /\ messageList' = [messageList EXCEPT !.position = p,
                                          !.autoScrollEnabled = isNearBottom(p),
                                          !.showNewMessagesBtn = IF isNearBottom(p) THEN FALSE ELSE @]
    /\ lastOp' = [op |-> "scroll", conv |-> NoConv, frame |-> NoFrame]
    /\ UNCHANGED << messages, aroundMessageList >>

\* MessageList.tsx:96-103, the 'New messages' button, rendered while the flag is set
NewMessagesClick ==
  /\ messageList.showNewMessagesBtn
  /\ messageList' = scrollToBottom(messageList)
  /\ lastOp' = [op |-> "newMessagesClick", conv |-> NoConv, frame |-> NoFrame]
  /\ UNCHANGED << messages, aroundMessageList >>

MessageListNext == MessagesChange \/ handleScroll \/ NewMessagesClick

MessageListSpec == Init /\ [][MessageListNext]_vars

\* C33: when the messages change and the last one is the user's, the view is
\* scrolled to the bottom; when the last one is not the user's, the view is scrolled
\* only if auto-scroll is enabled, and otherwise it stays where it is and the 'New
\* messages' button is shown; auto-scroll is enabled exactly when the last scroll
\* left the viewport within the threshold of the bottom; the button is hidden as
\* soon as the user scrolls near the bottom or presses it
ChangedTo(sender) ==
  lastOp'.op = "messagesChanged" /\ Len(messages') > 0 /\ Last(messages').sender = sender
C33_ScrollPolicy ==
  /\ [][ ChangedTo("user") =>
            messageList'.position = 0 /\ ~messageList'.showNewMessagesBtn ]_vars
  /\ [][ (ChangedTo("agent") /\ messageList.autoScrollEnabled) =>
            messageList'.position = 0 /\ ~messageList'.showNewMessagesBtn ]_vars
  /\ [][ (ChangedTo("agent") /\ ~messageList.autoScrollEnabled) =>
            /\ messageList'.position >= messageList.position
            /\ ~isNearBottom(messageList'.position)
            /\ messageList'.showNewMessagesBtn ]_vars
  /\ [][ (lastOp'.op = "scroll" /\ isNearBottom(messageList'.position)) =>
            ~messageList'.showNewMessagesBtn ]_vars
  /\ [][ lastOp'.op = "newMessagesClick" =>
            messageList'.position = 0 /\ ~messageList'.showNewMessagesBtn ]_vars
  /\ [](lastOp.op = "scroll" => (messageList.autoScrollEnabled <=> isNearBottom(messageList.position)))
  /\ [](~messageList.autoScrollEnabled => ~isNearBottom(messageList.position))
\* the user had scrolled up, a message of the agent came and the button is shown
\* over a view that did not move
C33_Witness ==
  /\ lastOp.op = "messagesChanged"
  /\ Len(messages) > 0
  /\ Last(messages).sender = "agent"
  /\ messageList.showNewMessagesBtn
  /\ messageList.position = 400

\* =========================================================================
\* The stream of the chat service (src/services/workflowService.ts:110-215): one
\* EventSource, the accumulator fullContent of its closure, and what the handler
\* gives to onUpdate.
\* =========================================================================
aroundChatStream == << conversations, currentConversationId, messages, isLoading, activeStreamsRef,
                      currentConversationIdRef, eventSources, pendingHistory, pendingStarts, chatVars,
                      localStorage, isAppReady, composer, identity, messageList, svc >>

\* data.content || dflt
ContentOr(data, dflt) == IF data.has /\ data.content # << >> THEN data.content ELSE dflt

\* mutant: a PARTIAL frame replaces the accumulator instead of being appended to it
NextFullContent_Replaces(fullContent, data) ==
  IF data.type = "PARTIAL" THEN ContentOr(data, << >>)
  ELSE IF data.type = "COMPLETE" THEN ContentOr(data, fullContent)
  ELSE fullContent

\* workflowService.ts:163 and 174, the accumulator after the event
NextFullContent(fullContent, data) ==
  IF data.type = "PARTIAL" THEN fullContent \o ContentOr(data, << >>)
  ELSE IF data.type = "COMPLETE" THEN ContentOr(data, fullContent)
  ELSE fullContent

\* workflowService.ts:128-192, the argument of onUpdate
UpdateOf(fullContent, data) ==
  CASE data.type = "CONNECTED" ->
         [type |-> "CONNECTED", status |-> "RUNNING", agentName |-> "System", has |-> FALSE, content |-> << >>]
    [] data.type = "THINKING" ->
         [type |-> "THINKING", status |-> "RUNNING", agentName |-> "System", has |-> TRUE,
          content |-> << "Thinking: " >> \o data.message]
    [] data.type = "TOOL" ->
         [type |-> "TOOL", status |-> "RUNNING", agentName |-> "Tool", has |-> TRUE,
          content |-> << "Executing " >> \o data.tool \o << ": " >> \o data.message]
    [] data.type = "PARTIAL" ->
         [type |-> "PARTIAL", status |-> "RUNNING", agentName |-> "Assistant", has |-> TRUE,
          content |-> fullContent]
    [] data.type = "COMPLETE" ->
         [type |-> "COMPLETE", status |-> "COMPLETED", agentName |-> "Assistant", has |-> TRUE,
          content |-> fullContent]
    [] data.type = "ERROR" ->
         [type |-> "ERROR", status |-> "FAILED", agentName |-> "System", has |-> TRUE,
          content |-> << "Error: " >> \o data.message]

\* workflowService.ts:110-121: a new EventSource and a new closure, fullContent = ""
ConnectToStream ==
  /\ chatStream.readyState \in {"NONE", "CLOSED"}
  /\ chatStream' = [NoChatStream EXCEPT !.readyState = "OPEN"]
  /\ lastOp' = [op |-> "connectToStream", conv |-> NoConv, frame |-> NoFrame]
  /\ UNCHANGED aroundChatStream

\* workflowService.ts:124-198, handleEvent: an event of the stream; data that does
\* not parse ends in the catch with nothing done
HandleEvent ==
  \E data \in StreamData :
    /\ chatStream.readyState = "OPEN"
    /\ Len(chatStream.received) < MaxFrames
    /\ chatStream' =
         [chatStream EXCEPT
            !.received = Append(@, data),
            !.fullContent = NextFullContent(@, data),
            !.onUpdate = IF data.type = "unparsed" THEN @
                         ELSE UpdateOf(NextFullContent(chatStream.fullContent, data), data),
            !.readyState = IF data.type \in {"COMPLETE", "ERROR"} THEN "CLOSED" ELSE @]
    /\ lastOp' = [op |-> "chatFrame", conv |-> NoConv, frame |-> NoFrame]
    /\ UNCHANGED aroundChatStream

\* workflowService.ts:205-211, onerror while the EventSource is not closed
ChatTransportError ==
  /\ chatStream.readyState = "OPEN"
  /\ chatStream' = [chatStream EXCEPT !.onError = TRUE, !.readyState = "CLOSED"]
  /\ lastOp' = [op |-> "chatTransportError", conv |-> NoConv, frame |-> NoFrame]
  /\ UNCHANGED aroundChatStream

ChatStreamNext == ConnectToStream \/ HandleEvent \/ ChatTransportError

ChatStreamSpec == Init /\ [][ChatStreamNext]_vars

RECURSIVE ConcatPartials(_)
ConcatPartials(frames) ==
  IF frames = << >> THEN << >>
  ELSE ConcatPartials(SubSeq(frames, 1, Len(frames) - 1))
         \o (IF Last(frames).type = "PARTIAL" /\ Last(frames).has THEN Last(frames).content ELSE << >>)

\* C40: the content given to onUpdate for the n-th PARTIAL frame of a stream is the
\* concatenation, in arrival order, of the content of the first n PARTIAL frames; the
\* update of a COMPLETE frame carries the frame's own content when that is not empty
\* and the accumulated concatenation otherwise; THINKING, TOOL and CONNECTED frames
\* leave the accumulator as it is
C40_PartialsAccumulate ==
  /\ [][ (lastOp'.op = "chatFrame" /\ Last(chatStream'.received).type = "PARTIAL") =>
            /\ chatStream'.onUpdate.type = "PARTIAL"
            /\ chatStream'.onUpdate.content = ConcatPartials(chatStream'.received) ]_vars
  /\ [][ (lastOp'.op = "chatFrame" /\ Last(chatStream'.received).type = "COMPLETE") =>
            /\ chatStream'.onUpdate.type = "COMPLETE"
            /\ chatStream'.onUpdate.content =
                  IF Last(chatStream'.received).has /\ Last(chatStream'.received).content # << >>
                    THEN Last(chatStream'.received).content
                    ELSE ConcatPartials(chatStream.received) ]_vars
  /\ [][ (lastOp'.op = "chatFrame"
            /\ Last(chatStream'.received).type \in {"THINKING", "TOOL", "CONNECTED"}) =>
            chatStream'.fullContent = chatStream.fullContent ]_vars
\* two PARTIAL frames with a THINKING frame between them, then a COMPLETE frame
\* without content: its update carries the two tokens in order
C40_Witness ==
  /\ lastOp.op = "chatFrame"
  /\ Len(chatStream.received) = 4
  /\ chatStream.received[2].type = "THINKING"
  /\ Last(chatStream.received).type = "COMPLETE"
  /\ ~Last(chatStream.received).has
  /\ chatStream.onUpdate.type = "COMPLETE"
  /\ chatStream.onUpdate.content = << "a", "b" >>

====
